---- MODULE Spec2Model ----
(***************************************************************************)
(* QmxGraph: the view lifecycle (qmxgraph/_web_view.py), the call          *)
(* marshaling path (qmxgraph/api.py call_api -> eval_js) and the           *)
(* delayed-signal bridges (qmxgraph/widget.py DelayedSignalsBridge).       *)
(*                                                                         *)
(* All host code runs on the single Qt UI thread.  Re-entrancy comes from  *)
(* nested event loops (wait_until -> QTest.qWait) and from listeners that  *)
(* are called synchronously by signal.emit.  The host call stack is        *)
(* therefore explicit: `stack` is a sequence of frames, the last element   *)
(* being the code that is running now.                                     *)
(***************************************************************************)
EXTENDS Integers, Sequences, FiniteSets, TLC

\* ------------------------------------------------------------------ bounds
MaxNotifs == 3      \* inbound notifications over a run
MaxScopes == 2      \* delaying scopes opened directly by host code over a run
MaxCalls  == 2      \* API calls made by host code over a run
MaxLoads  == 2      \* page loads in flight
MaxNesting == 1     \* nested event loops of waiting calls on the stack
MaxHandlers == 2    \* events-bridge handlers the finalize hook registers (of eight)
MaxRequests == 3    \* load / blank / close requests over a run
MaxWaits == 2       \* load_and_wait / blank_and_wait calls over a run
MaxOnce == 2        \* functions passed to call_once_when_loaded over a run
MaxArgs == 2        \* arguments a completion callback is invoked with
MaxInvocations == 2 \* invocations of one completion callback
MaxMessages == 1    \* log messages the engine emits while it runs one script
MaxJsArgs == 2      \* arguments of one prepare_js_call
MaxVertices == 2    \* vertex entries of a drag&drop payload
MaxDecorations == 1 \* decoration entries of a drag&drop payload
MaxEvals == 3       \* synchronous eval_js calls over a run
MaxTimeout == 2     \* largest timeout_ms of a wait_until call, in milliseconds

\* --------------------------------------------------------------- constants
ViewState == {"Blank", "GraphLoaded", "LoadingGraph", "LoadingBlank", "LoadingError", "Closing"}

\* The four bridges the widget owns, in the order delayed_bridges_context
\* enters them; a "with a, b, c, d:" statement leaves them in reverse order.
EnterOrder == <<"error", "events", "popup_menu", "double_click">>

Bridges == {EnterOrder[i] : i \in DOMAIN EnterOrder}

\* Signals declared on each bridge class (the events bridge declares eight;
\* the inbound notifications of the model use the ones listed here).
SignalsOf(b) ==
    CASE b = "error"        -> {"on_error"}
      [] b = "events"       -> {"on_cells_added", "on_label_changed"}
      [] b = "popup_menu"   -> {"on_popup_menu"}
      [] b = "double_click" -> {"on_double_click"}

\* The bridge whose inbound notifications the model enumerates.
Inbound == {"events"}

\* The register_*_handler calls of QmxGraph._connect_events_bridge, in order.
EventsHandlers ==
    << "registerCellsAddedHandler", "registerCellsRemovedHandler",
       "registerLabelChangedHandler", "registerSelectionChangedHandler",
       "registerTerminalChangedHandler", "registerTerminalWithPortChangedHandler",
       "registerBoundsChangedHandler", "registerViewUpdateHandler" >>

\* The calls QmxGraph._finalize_graph makes, in order: _connect_events_bridge
\* (its first MaxHandlers registrations), _connect_double_click_handler,
\* _connect_popup_menu_handler, then resize_container.  All pass
\* check_api=False; only resize_container is fire-and-forget (sync=False).
FinalizeCalls ==
    SubSeq(EventsHandlers, 1, MaxHandlers)
    \o << "registerDoubleClickHandler", "registerPopupMenuHandler", "resizeContainer" >>

VARIABLES
    view_state,     \* QWebViewWithDragDrop._view_state
    loads,          \* page loads started by setHtml whose loadFinished is not yet delivered
    finished,       \* history: the argument of the last loadFinished delivered
    block_updates,  \* QWebChannel.blockUpdates()
    block_signals,  \* QWebChannel.signalsBlocked()
    handed,         \* history: [origin, state] of the last script handed to page().runJavaScript
    ncalls,         \* number of API calls host code has made so far
    raised,         \* history: how the last call host code made ended, or what it waits for
    counter,        \* [Bridges -> Nat]      _delaying_signals_counter
    delayed,        \* [Bridges -> Seq of [signal, args]]  _delayed_signals (dict order)
    posted,         \* Qt posted-event queue: ids of _AsyncSignalEvent not yet delivered
    arrived,        \* history: arrived[n] = [bridge, signal, depth] of the n-th slot invocation,
                    \*          depth the delaying counter of the bridge at that time
    emitted,        \* history: ids in the order listeners were called
    stack,          \* host call stack, last element on top
    scopes,         \* number of delaying scopes host code has opened directly so far
    requests,       \* history: the load / blank / close requests made, in order
    all_ok,         \* history: every loadFinished delivered so far reported success
    waited,         \* history: [n, result] number of *_and_wait calls and how the last one stands
    once,           \* once[f] = [reg, calls] for the f-th function passed to
                    \*   call_once_when_loaded: registered in _call_once_loaded_callback,
                    \*   history: times called
    cb,             \* the callback object of a synchronous wait and the wait it belongs to
    debug,          \* qmxgraph.debug._QGRAPH_DEBUG
    api,            \* the call_api call in progress or last made, with its captured messages
    engine,         \* the page: scripts handed to runJavaScript and not yet run, and what it
                    \*   has sent back and the event loop has not yet delivered
    js,             \* prepare_js_call: its arguments and the statement it returned
    dnd,            \* the drag&drop event being handled or last handled
    evals,          \* the synchronous eval_js calls made so far, each with its callback
    poll            \* the wait_until loop that is running or has ended last

req_vars == <<requests, all_ok, waited>>

view_vars == <<view_state, loads, finished, block_updates, block_signals, req_vars, once>>

call_vars == <<handed, ncalls, raised>>

bridge_vars == <<counter, delayed, posted, arrived, emitted, scopes>>

ext_vars == <<cb, debug, api, engine, js, dnd, evals, poll>>

vars == <<view_state, loads, finished, block_updates, block_signals, handed, ncalls, raised,
          counter, delayed, posted, arrived, emitted, stack, scopes,
          requests, all_ok, waited, once, cb, debug, api, engine, js, dnd, evals, poll>>

\* ------------------------------------------------------------------ helpers
Last(s) == s[Len(s)]

Front(s) == SubSeq(s, 1, Len(s) - 1)

Reverse(s) == [i \in 1..Len(s) |-> s[Len(s) + 1 - i]]

RECURSIVE Concat(_)
Concat(ss) == IF ss = <<>> THEN <<>> ELSE Head(ss) \o Concat(Tail(ss))

Range(s) == {s[i] : i \in DOMAIN s}

\* A frame of the host call stack.
\*   kind  "scope"     body of a "with bridge.delaying_signals()" statement
\*         "call"      eval_js waiting in wait_callback_called for the result
\*         "exit"      leaving the with statement: the bridges of bs are still to leave
\*         "emit"      signal.emit calls: ids are still to be emitted on bridge b
\*         "finalize"  QmxGraph._finalize_graph: the calls of fns are still to make
\*         "wait"      load_and_wait / blank_and_wait in wait_until: until is the
\*                     ViewState it waits for
\*         "drop"      QmxGraph._on_drop: fault is what the call it made raised
\*   cur     id of the notification whose listeners are running (0: none)
\*   host    the waiting call was made by host code (not by the finalize hook)
\*   called  _Callback.was_called() of the waiting call
\*   fault   what the code that is leaving raised ("none": it returned)
Frame(kind) ==
    [kind |-> kind, b |-> "", bs |-> <<>>, ids |-> <<>>, cur |-> 0,
     host |-> FALSE, called |-> FALSE, fault |-> "none", fns |-> <<>>, until |-> ""]

Top == IF stack = <<>> THEN Frame("idle") ELSE Last(stack)

\* The Qt event loop can dispatch an event: nothing is running, or the running
\* code sits in a nested event loop (QTest.qWait of wait_until, or a waiting
\* scope body).
PumpPoint == Top.kind \in {"idle", "scope", "call", "wait"}

\* Host code can make a call: from an event handler or a scope body, or from a
\* listener that is being notified.
HostPoint == PumpPoint \/ (Top.kind = "emit" /\ Top.cur # 0)

\* Number of waiting calls on the stack, each inside its own event loop.
Nesting == Cardinality({i \in DOMAIN stack : stack[i].kind = "call"})

\* ------------------------------------------------------ DelayedSignalsBridge
\* self._delayed_signals[signal_name].append(args) on a defaultdict(list):
\* a new key goes to the end of the dict, an existing key keeps its place.
AppendDelayed(d, signal, args) ==
    IF \E i \in DOMAIN d : d[i].signal = signal
    THEN [i \in DOMAIN d |->
            IF d[i].signal = signal
            THEN [d[i] EXCEPT !.args = Append(@, args)]
            ELSE d[i]]
    ELSE Append(d, [signal |-> signal, args |-> <<args>>])

\* A flush that emits one notification of each signal name only.
ToEmitFirstOfEach(d) == [i \in DOMAIN d |-> Head(d[i].args)]

\* A flush that drops the queue.
ToEmitNothing(d) == <<>>

\* to_emit of flush_delayed_signals in emission order: for each
\* (signal_name, all_args) item of the dict, every args of all_args.
ToEmit(d) == Concat([i \in DOMAIN d |-> d[i].args])

\* A flush that forgets to clear the queue.
NotCleared(d) == d

\* self._delayed_signals.clear()
Cleared(d) == <<>>

\* is_delaying_signals, on a counter value
IsDelaying(c) == c > 0

\* A finally clause that flushes at every exit.
FlushAlways(c) == TRUE

\* "if self._delaying_signals_counter == 0" of the finally clause
FlushNow(c) == c = 0

\* A queue that puts the newest event first.
PostEventFirst(q, n) == <<n>> \o q

\* QApplication.instance().postEvent(self, _AsyncSignalEvent(...)): posted
\* events of equal priority are kept in posting order.
PostEvent(q, n) == Append(q, n)

\* The posted event the event loop delivers next.
NextEvent(q) == Head(q)

\* A slot that posts whatever the counter is.
RoutePost(c) == "post"

\* What async_slot does with the n-th notification: "delay" appends it to
\* _delayed_signals, "post" posts an _AsyncSignalEvent.
SlotRoute(c) == IF IsDelaying(c) THEN "delay" ELSE "post"

\* A slot that calls signal.emit itself when the bridge is not delaying.
sync_slot(b, signal) ==
    /\ PumpPoint
    /\ Len(arrived) < MaxNotifs
    /\ LET n == Len(arrived) + 1 IN
        /\ arrived' = Append(arrived, [bridge |-> b, signal |-> signal,
                                       depth |-> counter[b]])
        /\ delayed' = IF IsDelaying(counter[b])
                      THEN [delayed EXCEPT ![b] = AppendDelayed(@, signal, n)]
                      ELSE delayed
        /\ stack' = IF IsDelaying(counter[b])
                    THEN stack
                    ELSE Append(stack, [Frame("emit") EXCEPT !.b = b, !.ids = <<n>>])
    /\ UNCHANGED <<counter, posted, emitted, scopes>>
    /\ UNCHANGED <<view_vars, call_vars>>
    /\ UNCHANGED ext_vars

\* The slot the page (or host code) invokes for an inbound notification.
async_slot(b, signal) ==
    /\ PumpPoint
    /\ Len(arrived) < MaxNotifs
    /\ LET n     == Len(arrived) + 1
           route == SlotRoute(counter[b])
       IN  /\ arrived' = Append(arrived, [bridge |-> b, signal |-> signal,
                                          depth |-> counter[b]])
           /\ delayed' = IF route = "delay"
                         THEN [delayed EXCEPT ![b] = AppendDelayed(@, signal, n)]
                         ELSE delayed
           /\ posted' = IF route = "post" THEN PostEvent(posted, n) ELSE posted
    /\ UNCHANGED <<counter, emitted, stack, scopes>>
    /\ UNCHANGED <<view_vars, call_vars>>
    /\ UNCHANGED ext_vars

\* DelayedSignalsBridge.event: the event loop delivers a posted
\* _AsyncSignalEvent; the signal is emitted whatever the counter is.
event ==
    /\ PumpPoint
    /\ posted # <<>>
    /\ LET n == NextEvent(posted) IN
        /\ posted' = SelectSeq(posted, LAMBDA m : m # n)
        /\ stack' = Append(stack, [Frame("emit") EXCEPT !.b = arrived[n].bridge,
                                                        !.ids = <<n>>])
    /\ UNCHANGED <<counter, delayed, arrived, emitted, scopes>>
    /\ UNCHANGED <<view_vars, call_vars>>
    /\ UNCHANGED ext_vars

\* The code below a finished frame goes on.  An exception that leaves a call
\* made by _finalize_graph ends the hook: the rest of its calls is skipped
\* (the Callback that runs the hook reports the exception and returns).  An
\* exception that leaves a call made by _on_drop leaves _on_drop.
Resume(stk, fault) ==
    IF stk # <<>> /\ Last(stk).kind = "finalize" /\ fault # "none"
    THEN Append(Front(stk), [Last(stk) EXCEPT !.fns = <<>>])
    ELSE IF stk # <<>> /\ Last(stk).kind = "drop" /\ fault # "none"
    THEN Append(Front(stk), [Last(stk) EXCEPT !.fault = fault])
    ELSE stk

\* The finally clauses of delaying_signals for the bridges of bs, one after
\* the other, up to the first flush that has something to emit: c and d are
\* the counters and queues before.
RECURSIVE ExitAll(_, _, _)
ExitAll(bs, c, d) ==
    IF bs = <<>>
    THEN [bs |-> <<>>, counter |-> c, delayed |-> d, b |-> "", ids |-> <<>>]
    ELSE LET b  == Head(bs)
             c1 == [c EXCEPT ![b] = @ - 1]
         IN  IF FlushNow(c1[b]) /\ ToEmit(d[b]) # <<>>
             THEN [bs |-> Tail(bs), counter |-> c1,
                   delayed |-> [d EXCEPT ![b] = Cleared(@)],
                   b |-> b, ids |-> ToEmit(d[b])]
             ELSE ExitAll(Tail(bs), c1,
                          IF FlushNow(c1[b]) THEN [d EXCEPT ![b] = Cleared(@)] ELSE d)

\* Scopes without a finally clause: an exception that leaves the body skips
\* the decrement and the flush.
LeaveNoFinally(stk, bs, c, fault) ==
    IF fault = "none"
    THEN LET r == ExitAll(bs, c, delayed) IN
         /\ counter' = r.counter
         /\ delayed' = r.delayed
         /\ stack' = IF r.ids # <<>>
                     THEN stk \o << [Frame("exit") EXCEPT !.bs = r.bs, !.fault = fault],
                                     [Frame("emit") EXCEPT !.b = r.b, !.ids = r.ids] >>
                     ELSE Resume(stk, fault)
    ELSE /\ counter' = c
         /\ delayed' = delayed
         /\ stack' = Resume(stk, fault)

\* Code that holds delaying scopes on the bridges of bs (entered in the
\* reverse order) ends with `fault`; stk is the stack below it, c the counters.
Leave(stk, bs, c, fault) ==
    LET r == ExitAll(bs, c, delayed) IN
    /\ counter' = r.counter
    /\ delayed' = r.delayed
    /\ stack' = IF r.ids # <<>>
                THEN stk \o << [Frame("exit") EXCEPT !.bs = r.bs, !.fault = fault],
                                [Frame("emit") EXCEPT !.b = r.b, !.ids = r.ids] >>
                ELSE Resume(stk, fault)

\* signal.emit(*args): the listeners of the next notification are called.
\* When nothing is left the emitting code returns.
Emit ==
    /\ Top.kind = "emit"
    /\ IF Top.ids # <<>>
       THEN /\ emitted' = Append(emitted, Head(Top.ids))
            /\ stack' = Append(Front(stack),
                               [Top EXCEPT !.cur = Head(Top.ids), !.ids = Tail(@)])
       ELSE /\ stack' = Front(stack)
            /\ UNCHANGED emitted
    /\ UNCHANGED <<counter, delayed, posted, arrived, scopes>>
    /\ UNCHANGED <<view_vars, call_vars>>
    /\ UNCHANGED ext_vars

\* self._delaying_signals_counter += 1 on each bridge of bs.
Entered(c, bs) == [b \in Bridges |-> IF b \in Range(bs) THEN c[b] + 1 ELSE c[b]]

\* Host code enters "with bridge.delaying_signals():" (bs one bridge) or
\* "with delayed_bridges_context(...):" (bs = EnterOrder) itself.
EnterDelaying(bs) ==
    /\ HostPoint
    /\ scopes < MaxScopes
    /\ scopes' = scopes + 1
    /\ counter' = Entered(counter, bs)
    /\ stack' = Append(stack, [Frame("scope") EXCEPT !.bs = bs])
    /\ UNCHANGED <<delayed, posted, arrived, emitted>>
    /\ UNCHANGED <<view_vars, call_vars>>
    /\ UNCHANGED ext_vars

\* The body of the with statement ends, normally or by an exception: the
\* finally clauses run, last entered first.
LeaveBody ==
    /\ Top.kind = "scope"
    /\ Leave(Front(stack), Reverse(Top.bs), counter, "none")
    /\ UNCHANGED <<posted, arrived, emitted, scopes>>
    /\ UNCHANGED <<view_vars, call_vars>>
    /\ UNCHANGED ext_vars

\* A flush has returned: the remaining finally clauses run.
ExitDelaying ==
    /\ Top.kind = "exit"
    /\ Leave(Front(stack), Top.bs, counter, Top.fault)
    /\ UNCHANGED <<posted, arrived, emitted, scopes>>
    /\ UNCHANGED <<view_vars, call_vars>>
    /\ UNCHANGED ext_vars

\* ------------------------------------------------------ eval_js / call_api
\* A state check that lets every call through.
EvalAlwaysAllowed(check_api, vs) == TRUE

\* The state check of eval_js: "if check_api and self.view_state is not
\* ViewState.GraphLoaded: raise RuntimeError(...)".
EvalAllowed(check_api, vs) == ~(check_api /\ vs # "GraphLoaded")

\* A call made by the running code: call_api (scoped: _call_api runs inside
\* delayed_bridges_context) or a bare eval_js.  stk is the stack the call
\* returns to.  A synchronous call that passes the state check hands its
\* script to the engine and waits; every other call ends at once.
Call(origin, check_api, sync, scoped, stk) ==
    LET bs == IF scoped THEN EnterOrder ELSE <<>>
        c1 == Entered(counter, bs)
    IN  IF ~EvalAllowed(check_api, view_state)
        THEN /\ UNCHANGED handed
             /\ Leave(stk, Reverse(bs), c1, "state_fault")
        ELSE /\ handed' = [origin |-> origin, state |-> view_state]
             /\ IF sync
                THEN /\ counter' = c1
                     /\ UNCHANGED delayed
                     /\ stack' = Append(stk, [Frame("call") EXCEPT !.bs = bs, !.host = (origin = "host")])
                ELSE Leave(stk, Reverse(bs), c1, "none")

\* How a call stands when its first step is taken: it has raised the state
\* fault, it has returned None (fire-and-forget), or it waits for the engine.
FirstResult(check_api, sync, vs) ==
    IF ~EvalAllowed(check_api, vs) THEN "state_fault"
    ELSE IF sync THEN "pending" ELSE "none"

\* Host code calls the API with the default state check: call_api(fn, *args,
\* sync=...) when scoped, inner_web_view().eval_js(script, sync=...) when not.
StartCall(sync, scoped) ==
    /\ HostPoint
    /\ ncalls < MaxCalls
    /\ Nesting < MaxNesting
    /\ ncalls' = ncalls + 1
    /\ Call("host", TRUE, sync, scoped, stack)
    /\ raised' = FirstResult(TRUE, sync, view_state)
    /\ UNCHANGED <<posted, arrived, emitted, scopes>>
    /\ UNCHANGED view_vars
    /\ UNCHANGED ext_vars

\* The engine has run the script of a waiting call: the event loop invokes
\* the callback given to runJavaScript (_Callback.__call__ sets args).
Reply(i) ==
    /\ PumpPoint
    /\ i \in DOMAIN stack
    /\ stack[i].kind = "call"
    /\ ~stack[i].called
    /\ stack' = [stack EXCEPT ![i].called = TRUE]
    /\ UNCHANGED <<bridge_vars, view_vars, call_vars>>
    /\ UNCHANGED ext_vars

\* wait_until finds callback.was_called(): eval_js returns callback.args[0].
CallReturn ==
    /\ Top.kind = "call"
    /\ Top.called
    /\ Leave(Front(stack), Reverse(Top.bs), counter, "none")
    /\ raised' = IF Top.host THEN "value" ELSE raised
    /\ UNCHANGED <<posted, arrived, emitted, scopes, handed, ncalls>>
    /\ UNCHANGED view_vars
    /\ UNCHANGED ext_vars

\* wait_until finds the predicate false and the deadline passed: TimeoutError.
CallTimeout ==
    /\ Top.kind = "call"
    /\ ~Top.called
    /\ Leave(Front(stack), Reverse(Top.bs), counter, "timeout")
    /\ raised' = IF Top.host THEN "timeout_fault" ELSE raised
    /\ UNCHANGED <<posted, arrived, emitted, scopes, handed, ncalls>>
    /\ UNCHANGED view_vars
    /\ UNCHANGED ext_vars

\* ------------------------------------------------------- QWebViewWithDragDrop
\* load_graph: returns early when loaded or loading, else sets LoadingGraph
\* and starts the page load (setHtml).
LoadTarget(vs) == IF vs \in {"GraphLoaded", "LoadingGraph"} THEN vs ELSE "LoadingGraph"

\* A load_graph that returns early only when the graph is loaded.
StartsLoadUnlessLoaded(vs) == vs # "GraphLoaded"

StartsLoad(vs) == vs \notin {"GraphLoaded", "LoadingGraph"}

\* QmxGraph.load -> QWebViewWithDragDrop.load_graph
Load ==
    /\ PumpPoint
    /\ Len(loads) < MaxLoads
    /\ view_state' = LoadTarget(view_state)
    /\ loads' = IF StartsLoad(view_state) THEN Append(loads, "graph") ELSE loads
    /\ UNCHANGED <<finished, block_updates, block_signals, stack>>
    /\ UNCHANGED <<bridge_vars, call_vars, req_vars, once>>
    /\ UNCHANGED ext_vars

\* A blank that does nothing when the page is blank already.
BlankTargetKeepsBlank(vs) == IF vs = "Blank" THEN vs ELSE "LoadingBlank"

\* blank: sets LoadingBlank and starts the load of the empty page.
BlankTarget(vs) == "LoadingBlank"

\* QmxGraph.blank -> QWebViewWithDragDrop.blank
Blank ==
    /\ PumpPoint
    /\ Len(loads) < MaxLoads
    /\ view_state' = BlankTarget(view_state)
    /\ loads' = Append(loads, "blank")
    /\ UNCHANGED <<finished, block_updates, block_signals, stack>>
    /\ UNCHANGED <<bridge_vars, call_vars, req_vars, once>>
    /\ UNCHANGED ext_vars

\* closeEvent: stop(), Closing, _block_updates().
Close ==
    /\ PumpPoint
    /\ view_state' = "Closing"
    /\ block_updates' = TRUE
    /\ block_signals' = TRUE
    /\ UNCHANGED <<loads, finished, stack>>
    /\ UNCHANGED <<bridge_vars, call_vars, req_vars, once>>
    /\ UNCHANGED ext_vars

\* A completion handler that does not look at ok.
AfterLoadIgnoresOk(ok, vs) ==
    IF vs = "LoadingBlank" THEN "Blank"
    ELSE IF vs = "LoadingGraph" THEN "GraphLoaded"
    ELSE vs

\* The state _on_load_finished(ok) assigns when it runs in state vs.
AfterLoad(ok, vs) ==
    IF ~ok THEN "LoadingError"
    ELSE IF vs = "LoadingBlank" THEN "Blank"
    ELSE IF vs = "LoadingGraph" THEN "GraphLoaded"
    ELSE vs

\* on_finalize_graph_load() runs before the assignment of GraphLoaded.
RunsHook(ok, vs) == ok /\ vs = "LoadingGraph"

\* A trigger that calls the registered functions and keeps them registered.
TriggeredKeepsRegistered(o) ==
    [f \in DOMAIN o |-> IF o[f].reg THEN [o[f] EXCEPT !.calls = @ + 1] ELSE o[f]]

\* _call_once_loaded_callback() followed by UnregisterAll(): every registered
\* function is called and unregistered.
Triggered(o) ==
    [f \in DOMAIN o |->
        IF o[f].reg THEN [o[f] EXCEPT !.reg = FALSE, !.calls = @ + 1] ELSE o[f]]

\* QmxGraph._on_load_finished emits loadFinished and
\* _trigger_call_once_loaded_callback runs, right after the handler of the
\* view has returned with the state vs.
Trigger(vs, o) == IF vs = "GraphLoaded" THEN Triggered(o) ELSE o

\* _on_load_finished(ok): the event loop delivers loadFinished of the oldest
\* load in flight.  In LoadingGraph the channel is unblocked and the hook
\* starts; the state is assigned when the hook has returned (Finalize).  The
\* slot of the widget runs when the handler of the view has returned.
LoadFinished(ok) ==
    /\ PumpPoint
    /\ loads # <<>>
    /\ RunsHook(ok, view_state) => Nesting < MaxNesting
    /\ loads' = Tail(loads)
    /\ finished' = IF ok THEN "ok" ELSE "failed"
    /\ IF RunsHook(ok, view_state)
       THEN /\ block_updates' = FALSE
            /\ block_signals' = FALSE
            /\ stack' = Append(stack, [Frame("finalize") EXCEPT !.fns = FinalizeCalls])
            /\ UNCHANGED <<view_state, once>>
       ELSE /\ view_state' = AfterLoad(ok, view_state)
            /\ once' = Trigger(AfterLoad(ok, view_state), once)
            /\ block_updates' = IF ok /\ view_state = "LoadingBlank" THEN TRUE ELSE block_updates
            /\ block_signals' = IF ok /\ view_state = "LoadingBlank" THEN TRUE ELSE block_signals
            /\ UNCHANGED stack
    /\ UNCHANGED <<bridge_vars, call_vars, req_vars>>
    /\ UNCHANGED ext_vars

\* QmxGraph._finalize_graph, one call at a time (every register_* call is
\* synchronous and waits in a nested event loop); when it has returned,
\* _on_load_finished assigns GraphLoaded.
Finalize ==
    /\ Top.kind = "finalize"
    /\ IF Top.fns # <<>>
       THEN /\ Call("finalize", FALSE, Head(Top.fns) # "resizeContainer", TRUE,
                    Append(Front(stack), [Top EXCEPT !.fns = Tail(@)]))
            /\ UNCHANGED <<view_state, once>>
       ELSE /\ view_state' = AfterLoad(TRUE, "LoadingGraph")
            /\ once' = Trigger(AfterLoad(TRUE, "LoadingGraph"), once)
            /\ stack' = Front(stack)
            /\ UNCHANGED <<counter, delayed, handed>>
    /\ UNCHANGED <<posted, arrived, emitted, scopes, ncalls, raised>>
    /\ UNCHANGED <<loads, finished, block_updates, block_signals, req_vars>>
    /\ UNCHANGED ext_vars

\* ------------------------------ QWebViewWithDragDrop, src/qmxgraph/_web_view.py
\* The view of the src layout: _on_load_finished assigns the state first,
\* then blocks or unblocks the channel, then calls the hook; requests are
\* logged in `requests`.

\* load_graph, with the request logged.
DoLoad ==
    /\ Len(requests) < MaxRequests
    /\ Len(loads) < MaxLoads
    /\ requests' = Append(requests, "load")
    /\ view_state' = LoadTarget(view_state)
    /\ loads' = IF StartsLoad(view_state) THEN Append(loads, "graph") ELSE loads

\* blank, with the request logged.
DoBlank ==
    /\ Len(requests) < MaxRequests
    /\ Len(loads) < MaxLoads
    /\ requests' = Append(requests, "blank")
    /\ view_state' = BlankTarget(view_state)
    /\ loads' = Append(loads, "blank")

\* QmxGraph.load -> load_graph
load_graph ==
    /\ PumpPoint
    /\ DoLoad
    /\ UNCHANGED <<finished, block_updates, block_signals, all_ok, waited, once, stack>>
    /\ UNCHANGED <<bridge_vars, call_vars>>
    /\ UNCHANGED ext_vars

\* QmxGraph.blank -> blank
blank ==
    /\ PumpPoint
    /\ DoBlank
    /\ UNCHANGED <<finished, block_updates, block_signals, all_ok, waited, once, stack>>
    /\ UNCHANGED <<bridge_vars, call_vars>>
    /\ UNCHANGED ext_vars

\* closeEvent: stop(), Closing, _block_web_channel().
closeEvent ==
    /\ PumpPoint
    /\ Len(requests) < MaxRequests
    /\ requests' = Append(requests, "close")
    /\ view_state' = "Closing"
    /\ block_updates' = TRUE
    /\ block_signals' = TRUE
    /\ UNCHANGED <<loads, finished, all_ok, waited, once, stack>>
    /\ UNCHANGED <<bridge_vars, call_vars>>
    /\ UNCHANGED ext_vars

\* What _on_load_finished(ok) leaves in a blocking flag of the channel:
\* _block_web_channel in LoadingBlank, _unblock_web_channel in LoadingGraph.
ChannelAfter(ok, vs, blocked) ==
    IF ok /\ vs = "LoadingBlank" THEN TRUE
    ELSE IF ok /\ vs = "LoadingGraph" THEN FALSE
    ELSE blocked

\* _on_load_finished(ok): the event loop delivers loadFinished of the oldest
\* load in flight.
on_load_finished(ok) ==
    /\ PumpPoint
    /\ loads # <<>>
    /\ loads' = Tail(loads)
    /\ finished' = IF ok THEN "ok" ELSE "failed"
    /\ all_ok' = (all_ok /\ ok)
    /\ view_state' = AfterLoad(ok, view_state)
    /\ block_updates' = ChannelAfter(ok, view_state, block_updates)
    /\ block_signals' = ChannelAfter(ok, view_state, block_signals)
    /\ once' = Trigger(AfterLoad(ok, view_state), once)
    /\ UNCHANGED <<requests, waited, stack>>
    /\ UNCHANGED <<bridge_vars, call_vars>>
    /\ UNCHANGED ext_vars

\* A *_and_wait that does not look for Closing.
WaitEntryNoClosing(vs, target) == IF vs = target THEN "returned" ELSE "waiting"

\* How load_and_wait / blank_and_wait starts in state vs when it waits for the
\* state target: it returns at once, raises the state fault, or makes its
\* request and waits.
WaitEntry(vs, target) ==
    IF vs = target THEN "returned"
    ELSE IF vs = "Closing" THEN "state_fault"
    ELSE "waiting"

\* QmxGraph.load_and_wait
load_and_wait ==
    /\ PumpPoint
    /\ waited.n < MaxWaits
    /\ waited' = [n |-> waited.n + 1, result |-> WaitEntry(view_state, "GraphLoaded")]
    /\ IF WaitEntry(view_state, "GraphLoaded") = "waiting"
       THEN /\ DoLoad
            /\ stack' = Append(stack, [Frame("wait") EXCEPT !.until = "GraphLoaded"])
       ELSE UNCHANGED <<requests, view_state, loads, stack>>
    /\ UNCHANGED <<finished, block_updates, block_signals, all_ok, once>>
    /\ UNCHANGED <<bridge_vars, call_vars>>
    /\ UNCHANGED ext_vars

\* QmxGraph.blank_and_wait
blank_and_wait ==
    /\ PumpPoint
    /\ waited.n < MaxWaits
    /\ waited' = [n |-> waited.n + 1, result |-> WaitEntry(view_state, "Blank")]
    /\ IF WaitEntry(view_state, "Blank") = "waiting"
       THEN /\ DoBlank
            /\ stack' = Append(stack, [Frame("wait") EXCEPT !.until = "Blank"])
       ELSE UNCHANGED <<requests, view_state, loads, stack>>
    /\ UNCHANGED <<finished, block_updates, block_signals, all_ok, once>>
    /\ UNCHANGED <<bridge_vars, call_vars>>
    /\ UNCHANGED ext_vars

\* wait_until finds its predicate true: the *_and_wait call returns.
wait_return ==
    /\ Top.kind = "wait"
    /\ view_state = Top.until
    /\ stack' = Front(stack)
    /\ waited' = [waited EXCEPT !.result = "returned"]
    /\ UNCHANGED <<view_state, loads, finished, block_updates, block_signals, requests, all_ok, once>>
    /\ UNCHANGED <<bridge_vars, call_vars>>
    /\ UNCHANGED ext_vars

\* wait_until finds its predicate false and the deadline passed: TimeoutError.
wait_timeout ==
    /\ Top.kind = "wait"
    /\ view_state # Top.until
    /\ stack' = Front(stack)
    /\ waited' = [waited EXCEPT !.result = "timeout_fault"]
    /\ UNCHANGED <<view_state, loads, finished, block_updates, block_signals, requests, all_ok, once>>
    /\ UNCHANGED <<bridge_vars, call_vars>>
    /\ UNCHANGED ext_vars

\* Where a function passed to call_once_when_loaded in state vs stands: called
\* at once when loaded, registered otherwise.
OnceEntry(vs) ==
    IF vs = "GraphLoaded"
    THEN [reg |-> FALSE, calls |-> 1]
    ELSE [reg |-> TRUE, calls |-> 0]

\* QmxGraph.call_once_when_loaded(function), by host code
call_once_when_loaded ==
    /\ HostPoint
    /\ Len(once) < MaxOnce
    /\ once' = Append(once, OnceEntry(view_state))
    /\ UNCHANGED <<view_state, loads, finished, block_updates, block_signals, req_vars, stack>>
    /\ UNCHANGED <<bridge_vars, call_vars>>
    /\ UNCHANGED ext_vars

\* ------------------------------------------------- waiting / callback_blocker
\* Values the engine or a caller passes to a completion callback.
Values == {"null", "1"}

\* The argument tuples a completion callback can be invoked with.
ArgTuples == UNION {[1..n -> Values] : n \in 0..MaxArgs}

\* The exception classes the code raises, each with its base class
\* (exceptions.py, callback_blocker.py and the builtins they derive from).
Bases ==
    [ TimeoutError             |-> "OSError",
      OSError                  |-> "Exception",
      RuntimeError             |-> "Exception",
      ValueError               |-> "Exception",
      TypeError                |-> "Exception",
      IndexError               |-> "LookupError",
      KeyError                 |-> "LookupError",
      LookupError              |-> "Exception",
      CallbackCalledTwiceError |-> "Exception",
      QmxGraphError            |-> "Exception",
      InvalidJavaScriptError   |-> "QmxGraphError",
      ViewStateError           |-> "QmxGraphError",
      Exception                |-> "BaseException" ]

\* isinstance(e, d) for an exception e of class c: an "except d" clause
\* catches it.
RECURSIVE IsInstance(_, _)
IsInstance(c, d) ==
    IF c = d THEN TRUE
    ELSE IF c \in DOMAIN Bases THEN IsInstance(Bases[c], d)
    ELSE FALSE

\* What eval_js raises for a view that is not loaded, what _call_api raises
\* for captured critical messages, what wait_until raises at the deadline.
StateFault == "RuntimeError"

InvalidCallFault == "InvalidJavaScriptError"

TimeoutFault == "TimeoutError"

\* The waits of the code: eval_js and the tests wait on a _Callback
\* (wait_callback_called), common_testing waits on a CallbackBlocker.
Waits == {<<"Callback", "eval_js">>, <<"Callback", "test">>, <<"CallbackBlocker", "test">>}

\* A callback object before any invocation: _Callback() has args None;
\* CallbackBlocker() has args None and called False.  args is <<>> for None
\* and <<a>> for the tuple a.  History: calls, the tuples it was invoked
\* with; raised, what its last invocation raised.  The wait: user is who
\* waits, phase how the wait stands, fault what it raised, result what
\* eval_js returned (<<>>: nothing).
NewCallback(impl, user) ==
    [impl |-> impl, user |-> user, args |-> <<>>, called |-> FALSE,
     calls |-> <<>>, raised |-> "none",
     phase |-> "waiting", fault |-> "none", result |-> <<>>]

NoCallback == [NewCallback("none", "none") EXCEPT !.phase = "none"]

\* _Callback.__call__(*args): self.args = args.
Callback_call(c, a) == [c EXCEPT !.args = <<a>>, !.raised = "none"]

\* CallbackBlocker.__call__(*args): raises when called already, else stores
\* the arguments and quits the loop of wait().
CallbackBlocker_call(c, a) ==
    IF c.called
    THEN [c EXCEPT !.raised = "CallbackCalledTwiceError"]
    ELSE [c EXCEPT !.args = <<a>>, !.called = TRUE, !.raised = "none"]

\* A predicate that is true of every callback.
was_called_always(c) == TRUE

\* _Callback.was_called(): self.args is not None; CallbackBlocker: self.called.
was_called(c) == IF c.impl = "CallbackBlocker" THEN c.called ELSE c.args # <<>>

\* An eval_js that returns the last argument.
EvalResultLast(c) ==
    IF c.args = <<>> THEN [fault |-> "TypeError", value |-> <<>>]
    ELSE IF c.args[1] = <<>> THEN [fault |-> "IndexError", value |-> <<>>]
    ELSE [fault |-> "none", value |-> <<Last(c.args[1])>>]

\* "return callback.args[0]" of eval_js.
EvalResult(c) ==
    IF c.args = <<>> THEN [fault |-> "TypeError", value |-> <<>>]
    ELSE IF c.args[1] = <<>> THEN [fault |-> "IndexError", value |-> <<>>]
    ELSE [fault |-> "none", value |-> <<Head(c.args[1])>>]

\* "with wait_callback_called() as callback:" (user "test", or "eval_js"
\* whose body hands the callback to runJavaScript), or a CallbackBlocker
\* used as a context manager.
wait_callback_called(impl, user) ==
    /\ cb.phase = "none"
    /\ cb' = NewCallback(impl, user)
    /\ UNCHANGED <<view_vars, call_vars, bridge_vars, stack>>
    /\ UNCHANGED <<debug, api, engine, js, dnd, evals, poll>>

\* The callback is invoked with the tuple a: in the body of the with
\* statement, by the event loop during the wait, or later.  The engine
\* passes runJavaScript's callback one result at least.
callback_call(a) ==
    /\ cb.phase # "none"
    /\ Len(cb.calls) < MaxInvocations
    /\ cb.user = "eval_js" => a # <<>>
    /\ LET c == IF cb.impl = "CallbackBlocker"
                THEN CallbackBlocker_call(cb, a)
                ELSE Callback_call(cb, a)
       IN  cb' = [c EXCEPT !.calls = Append(@, a)]
    /\ UNCHANGED <<view_vars, call_vars, bridge_vars, stack>>
    /\ UNCHANGED <<debug, api, engine, js, dnd, evals, poll>>

\* wait_until(callback.was_called) / CallbackBlocker.wait() ends: it returns
\* when the callback was called, and raises TimeoutError when the deadline
\* has passed and it was not.  eval_js then returns callback.args[0].
wait_until ==
    /\ cb.phase = "waiting"
    /\ IF was_called(cb)
       THEN cb' = [cb EXCEPT !.phase = "returned",
                             !.fault = IF cb.user = "eval_js" THEN EvalResult(cb).fault ELSE "none",
                             !.result = IF cb.user = "eval_js" THEN EvalResult(cb).value ELSE <<>>]
       ELSE cb' = [cb EXCEPT !.phase = "timeout", !.fault = TimeoutFault]
    /\ UNCHANGED <<view_vars, call_vars, bridge_vars, stack>>
    /\ UNCHANGED <<debug, api, engine, js, dnd, evals, poll>>

\* ------------------------------------------------------------------- js.py
\* Python objects passed as arguments: t is the type, s the text of a str,
\* the name of a Variable, the key of a dict item or the literal of a bool,
\* n the value of an int, items the elements of a list or the items of a
\* dict (each of type "item": s is the key, items holds the value).
Atom(t, s, n) == [t |-> t, s |-> s, n |-> n, items |-> <<>>]

Variable(name) == Atom("var", name, 0)

PyStr(s) == Atom("str", s, 0)

PyInt(n) == Atom("int", "", n)

PyNone == Atom("none", "", 0)

PyBool(b) == Atom("bool", IF b THEN "true" ELSE "false", 0)

PyList(items) == [t |-> "list", s |-> "", n |-> 0, items |-> items]

Item(k, v) == [t |-> "item", s |-> k, n |-> 0, items |-> <<v>>]

PyDict(items) == [t |-> "dict", s |-> "", n |-> 0, items |-> items]

\* A statement or literal (text), or the exception raised instead.
Text(s) == [fault |-> "none", text |-> s]

Raise(fault) == [fault |-> fault, text |-> ""]

\* The i-th character of the string s ("" past its end).
Ch(s, i) == IF i >= 1 /\ i <= Len(s) THEN SubSeq(s, i, i) ELSE ""

\* sep.join(parts)
RECURSIVE JoinText(_, _)
JoinText(parts, sep) ==
    IF parts = <<>> THEN ""
    ELSE IF Len(parts) = 1 THEN parts[1]
    ELSE parts[1] \o sep \o JoinText(Tail(parts), sep)

\* The body of a JSON string literal for the characters of s from the i-th
\* on: the quote and the backslash are escaped.
RECURSIVE Escaped(_, _)
Escaped(s, i) ==
    IF i > Len(s) THEN ""
    ELSE LET c == Ch(s, i) IN
         (IF c = "\"" THEN "\\\"" ELSE IF c = "\\" THEN "\\\\" ELSE c) \o Escaped(s, i + 1)

Quoted(s) == "\"" \o Escaped(s, 1) \o "\""

\* json.JSONEncoder.encode(o) with the default separators: a Variable
\* anywhere in o has no encoding (default() raises TypeError).
RECURSIVE JSONEncoder_encode(_)
JSONEncoder_encode(o) ==
    CASE o.t = "str"  -> Text(Quoted(o.s))
      [] o.t = "int"  -> Text(ToString(o.n))
      [] o.t = "bool" -> Text(o.s)
      [] o.t = "none" -> Text("null")
      [] o.t = "var"  -> Raise("TypeError")
      [] o.t = "item" ->
            LET v == JSONEncoder_encode(o.items[1]) IN
            IF v.fault # "none" THEN v ELSE Text(Quoted(o.s) \o ": " \o v.text)
      [] o.t \in {"list", "dict"} ->
            LET parts == [i \in DOMAIN o.items |-> JSONEncoder_encode(o.items[i])] IN
            IF \E i \in DOMAIN parts : parts[i].fault # "none"
            THEN Raise("TypeError")
            ELSE Text((IF o.t = "list" THEN "[" ELSE "{")
                      \o JoinText([i \in DOMAIN parts |-> parts[i].text], ", ")
                      \o (IF o.t = "list" THEN "]" ELSE "}"))

\* An encoder that has no case for Variable objects and writes their name
\* as a string.
encode_quoting_variables(o) ==
    IF o.t = "var" THEN Text(Quoted(o.s)) ELSE JSONEncoder_encode(o)

\* _JavaScriptEncoder.encode(o): "if type(o) is Variable: return o.name",
\* else the JSON encoding.
JavaScriptEncoder_encode(o) ==
    IF o.t = "var" THEN Text(o.s) ELSE JSONEncoder_encode(o)

\* _js_dump = functools.partial(json.dumps, cls=_JavaScriptEncoder)
js_dump(v) == JavaScriptEncoder_encode(v)

\* "{fn}({args})".format(fn=fn, args=", ".join(_js_dump(v) for v in args))
PrepareJsCall(fn, args) ==
    LET parts == [i \in DOMAIN args |-> js_dump(args[i])] IN
    IF \E i \in DOMAIN parts : parts[i].fault # "none"
    THEN Raise("TypeError")
    ELSE Text(fn \o "(" \o JoinText([i \in DOMAIN parts |-> parts[i].text], ", ") \o ")")

\* Reading a text of the JSON syntax (json.loads), names read as the
\* JavaScript engine reads them: a result is [ok, v, next], v the object read
\* and next the position after it.
Digit == {"0", "1", "2", "3", "4", "5", "6", "7", "8", "9"}

DigitValue(c) ==
    CASE c = "0" -> 0 [] c = "1" -> 1 [] c = "2" -> 2 [] c = "3" -> 3 [] c = "4" -> 4
      [] c = "5" -> 5 [] c = "6" -> 6 [] c = "7" -> 7 [] c = "8" -> 8 [] c = "9" -> 9

Letter ==
    {"a", "b", "c", "d", "e", "f", "g", "h", "i", "j", "k", "l", "m", "n", "o", "p", "q",
     "r", "s", "t", "u", "v", "w", "x", "y", "z", "A", "B", "C", "D", "E", "F", "G", "H",
     "I", "J", "K", "L", "M", "N", "O", "P", "Q", "R", "S", "T", "U", "V", "W", "X", "Y",
     "Z", "_"}

Read(v, next) == [ok |-> TRUE, v |-> v, next |-> next]

NotRead == [ok |-> FALSE, v |-> PyNone, next |-> 0]

\* The characters of a string literal from position i up to its closing quote.
RECURSIVE ReadString(_, _, _)
ReadString(s, i, acc) ==
    IF i > Len(s) THEN NotRead
    ELSE IF Ch(s, i) = "\"" THEN Read(PyStr(acc), i + 1)
    ELSE IF Ch(s, i) = "\\" THEN ReadString(s, i + 2, acc \o Ch(s, i + 1))
    ELSE ReadString(s, i + 1, acc \o Ch(s, i))

\* The digits of a number from position i on; n is the value read so far.
RECURSIVE ReadDigits(_, _, _)
ReadDigits(s, i, n) ==
    IF Ch(s, i) \in Digit THEN ReadDigits(s, i + 1, 10 * n + DigitValue(Ch(s, i)))
    ELSE Read(PyInt(n), i)

\* The letters of a name from position i on.
RECURSIVE ReadName(_, _, _)
ReadName(s, i, acc) ==
    IF Ch(s, i) \in Letter THEN ReadName(s, i + 1, acc \o Ch(s, i))
    ELSE Read(acc, i)

\* A name read as an expression: a literal of the language or a reference.
Named(name) ==
    IF name \in {"true", "false"} THEN Atom("bool", name, 0)
    ELSE IF name = "null" THEN PyNone
    ELSE Variable(name)

RECURSIVE ReadValue(_, _), ReadItems(_, _, _, _, _)
\* The expression that starts at position i.
ReadValue(s, i) ==
    LET c == Ch(s, i) IN
    CASE c = "\"" -> ReadString(s, i + 1, "")
      [] c = "-" ->
            LET r == ReadDigits(s, i + 1, 0) IN
            IF r.next = i + 1 THEN NotRead ELSE Read(PyInt(0 - r.v.n), r.next)
      [] c \in Digit -> ReadDigits(s, i, 0)
      [] c \in Letter ->
            LET r == ReadName(s, i, "") IN Read(Named(r.v), r.next)
      [] c = "[" -> ReadItems(s, i + 1, "]", FALSE, <<>>)
      [] c = "{" -> ReadItems(s, i + 1, "}", TRUE, <<>>)
      [] OTHER -> NotRead

\* The elements from position i up to the closing character, separated by
\* ", "; keyed: each element is "key": value.
ReadItems(s, i, closing, keyed, acc) ==
    IF Ch(s, i) = closing /\ acc = <<>>
    THEN Read(IF keyed THEN PyDict(acc) ELSE PyList(acc), i + 1)
    ELSE LET k == IF keyed THEN ReadValue(s, i) ELSE Read(PyNone, i)
             j == IF keyed THEN k.next + 2 ELSE i
             r == IF k.ok THEN ReadValue(s, j) ELSE NotRead
         IN  IF ~r.ok \/ (keyed /\ (k.v.t # "str" \/ SubSeq(s, k.next, k.next + 1) # ": "))
             THEN NotRead
             ELSE LET e   == IF keyed THEN Item(k.v.s, r.v) ELSE r.v
                      all == Append(acc, e)
                  IN  IF Ch(s, r.next) = closing
                      THEN Read(IF keyed THEN PyDict(all) ELSE PyList(all), r.next + 1)
                      ELSE IF SubSeq(s, r.next, r.next + 1) = ", "
                      THEN ReadItems(s, r.next + 2, closing, keyed, all)
                      ELSE NotRead

\* No prepare_js_call made yet.
NoStatement == [fn |-> "", args |-> <<>>, fault |-> "none", text |-> ""]

\* Function names and argument objects of the calls the model makes.
FnNames == {"foo", "getLabel"}

JsArgs ==
    { Variable("bar"), PyStr("bar"), PyStr("a\"b"), PyInt(12), PyInt(-1), PyNone, PyBool(TRUE),
      PyList(<<>>), PyList(<<PyStr("bar"), PyInt(1)>>), PyList(<<Variable("bar")>>),
      PyDict(<<Item("foo", PyStr("1")), Item("bar", PyStr("a"))>>) }

\* prepare_js_call(fn, *args), by host code (the model makes one call a run).
prepare_js_call(fn, args) ==
    /\ js = NoStatement
    /\ js' = [fn |-> fn, args |-> args,
              fault |-> PrepareJsCall(fn, args).fault,
              text |-> PrepareJsCall(fn, args).text]
    /\ UNCHANGED <<view_vars, call_vars, bridge_vars, stack>>
    /\ UNCHANGED <<cb, debug, api, engine, dnd, evals, poll>>

\* ------------------------------------------------------ QmxGraphApi.call_api
\* Functions of the JavaScript api object, and a name it does not have.
ApiFunctions == {"insertVertex", "insertDecoration", "getZoomScale"}

Missing(fn) == fn \notin ApiFunctions

\* No call_api call made yet.  id numbers the calls; debug is the flag when
\* the call was made; installed: the message handler of
\* _capture_critical_log_messages is installed; msgs the messages it has
\* captured; phase "waiting" or "done"; fault what the call raised, text the
\* message of that exception, named the functions the text names; value what
\* the call returned (<<>>: nothing, <<"null">>: None); reply what the
\* callback of runJavaScript was invoked with.
NoCall ==
    [id |-> 0, fn |-> "", sync |-> TRUE, debug |-> FALSE, installed |-> FALSE,
     msgs |-> <<>>, phase |-> "none", fault |-> "none", text |-> "", named |-> {},
     value |-> <<>>, reply |-> <<>>]

\* The script _call_api builds: in debug mode the call is preceded by the
\* guard that throws when api.<fn> is missing.
Script(id, fn, dbg) == [id |-> id, fn |-> fn, guarded |-> dbg]

\* handle_message: "if msg_type == QtCriticalMsg: messages.append(message)".
Captures(sev) == sev = "critical"

\* "\n".join(messages)
RECURSIVE Join(_)
Join(msgs) ==
    IF msgs = <<>> THEN ""
    ELSE IF Len(msgs) = 1 THEN msgs[1].text
    ELSE msgs[1].text \o "\n" \o Join(Tail(msgs))

\* The end of _call_api once eval_js has returned value: the handler is
\* removed, then "if messages: raise InvalidJavaScriptError(...)", else
\* "return result".
AfterCall(call, value) ==
    IF call.msgs # <<>>
    THEN [call EXCEPT !.phase = "done", !.installed = FALSE,
                      !.fault = InvalidCallFault, !.text = Join(call.msgs),
                      !.named = {call.msgs[i].fn : i \in DOMAIN call.msgs} \ {""}]
    ELSE [call EXCEPT !.phase = "done", !.installed = FALSE, !.value = value]

\* What the page logs while it runs script s, and the result of the script.
\* A missing function makes the guard (debug mode) or the call itself throw:
\* the uncaught error is logged with critical severity and the result is
\* null.  A function of the api may log up to MaxMessages messages.
Outcomes(s) ==
    IF Missing(s.fn)
    THEN {[log |-> << [sev |-> "critical", fn |-> s.fn,
                       text |-> IF s.guarded
                                THEN "[QmxGraph] unable to find function \"" \o s.fn
                                     \o "\" in javascript api"
                                ELSE "TypeError: api." \o s.fn \o " is not a function"] >>,
           value |-> "null"]}
    ELSE {[log |-> l, value |-> "1"] :
            l \in UNION {[1..k -> {[sev |-> "critical", fn |-> "", text |-> "error"],
                                   [sev |-> "warning", fn |-> "", text |-> "warn"]}] :
                         k \in 0..MaxMessages}}

\* qmxgraph.debug.set_qmxgraph_debug(enabled), by host code.
set_qmxgraph_debug(enabled) ==
    /\ stack = <<>>
    /\ debug # enabled
    /\ debug' = enabled
    /\ UNCHANGED <<view_vars, call_vars, bridge_vars, stack>>
    /\ UNCHANGED <<cb, api, engine, js, dnd, evals, poll>>

\* call_api(fn, sync=sync) by host code, up to the point where eval_js
\* raises, returns (fire-and-forget) or waits.
call_api(fn, sync) ==
    /\ stack = <<>>
    /\ ncalls < MaxCalls
    /\ ncalls' = ncalls + 1
    /\ Call("host", TRUE, sync, TRUE, stack)
    /\ raised' = FirstResult(TRUE, sync, view_state)
    /\ LET id    == ncalls + 1
           first == FirstResult(TRUE, sync, view_state)
           call  == [NoCall EXCEPT !.id = id, !.fn = fn, !.sync = sync, !.debug = debug]
       IN  /\ api' = CASE first = "state_fault" ->
                            [call EXCEPT !.phase = "done", !.fault = StateFault]
                       [] first = "none"    -> AfterCall(call, <<"null">>)
                       [] first = "pending" ->
                            [call EXCEPT !.phase = "waiting", !.installed = debug]
           /\ engine' = IF first = "state_fault"
                        THEN engine
                        ELSE [engine EXCEPT !.scripts = Append(@, Script(id, fn, debug))]
    /\ UNCHANGED <<posted, arrived, emitted, scopes>>
    /\ UNCHANGED view_vars
    /\ UNCHANGED <<cb, debug, js, dnd, evals, poll>>

\* The page runs the oldest script handed to runJavaScript: what it logs and
\* then its result go back to the host through the event loop.
run_script ==
    /\ engine.scripts # <<>>
    /\ LET s == Head(engine.scripts) IN
        \E o \in Outcomes(s) :
            LET msgs == [i \in DOMAIN o.log |->
                            [kind |-> "msg", id |-> s.id, sev |-> o.log[i].sev,
                             fn |-> o.log[i].fn, text |-> o.log[i].text]]
            IN  engine' = [scripts |-> Tail(engine.scripts),
                           out |-> engine.out \o msgs \o
                                   << [kind |-> "reply", id |-> s.id, sev |-> "",
                                       fn |-> "", text |-> o.value] >>,
                           log |-> engine.log \o msgs]
    /\ UNCHANGED <<view_vars, call_vars, bridge_vars, stack>>
    /\ UNCHANGED <<cb, debug, api, js, dnd, evals, poll>>

\* The event loop delivers what the page sent next: a log message goes to
\* the installed message handler, a result to the callback of the call that
\* waits for it.
deliver ==
    /\ PumpPoint
    /\ engine.out # <<>>
    /\ engine' = [engine EXCEPT !.out = Tail(@)]
    /\ LET e == Head(engine.out) IN
        IF e.kind = "msg"
        THEN /\ api' = IF api.installed /\ Captures(e.sev)
                       THEN [api EXCEPT !.msgs = Append(@, e)]
                       ELSE api
             /\ UNCHANGED stack
        ELSE IF Top.kind = "call" /\ api.phase = "waiting" /\ e.id = api.id
        THEN /\ api' = [api EXCEPT !.reply = <<e.text>>]
             /\ stack' = Append(Front(stack), [Top EXCEPT !.called = TRUE])
        ELSE UNCHANGED <<api, stack>>
    /\ UNCHANGED <<view_vars, call_vars, bridge_vars>>
    /\ UNCHANGED <<cb, debug, js, dnd, evals, poll>>

\* wait_until finds callback.was_called(): eval_js returns callback.args[0]
\* to _call_api, which looks at the captured messages.
api_return ==
    /\ Top.kind = "call"
    /\ Top.called
    /\ api.phase = "waiting"
    /\ Leave(Front(stack), Reverse(Top.bs), counter, "none")
    /\ api' = AfterCall(api, api.reply)
    /\ raised' = "value"
    /\ UNCHANGED <<posted, arrived, emitted, scopes, handed, ncalls>>
    /\ UNCHANGED view_vars
    /\ UNCHANGED <<cb, debug, engine, js, dnd, evals, poll>>

\* wait_until raises TimeoutError: it leaves eval_js and _call_api (the
\* handler is removed on the way, the messages are not looked at).
api_timeout ==
    /\ Top.kind = "call"
    /\ ~Top.called
    /\ api.phase = "waiting"
    /\ Leave(Front(stack), Reverse(Top.bs), counter, "timeout")
    /\ api' = [api EXCEPT !.phase = "done", !.installed = FALSE, !.fault = TimeoutFault]
    /\ raised' = "timeout_fault"
    /\ UNCHANGED <<posted, arrived, emitted, scopes, handed, ncalls>>
    /\ UNCHANGED view_vars
    /\ UNCHANGED <<cb, debug, engine, js, dnd, evals, poll>>

\* ----------------------------------------------- mime.py / QmxGraph._on_drop
QGRAPH_DD_MIME_TYPE == "application/x-qmxgraph-dd"

QGRAPH_DD_MIME_VERSION == 2

\* "key in d" and d.get(key, default) of a dict.
Has(d, k) == \E i \in DOMAIN d.items : d.items[i].s = k

Get(d, k, default) ==
    IF Has(d, k)
    THEN d.items[CHOOSE i \in DOMAIN d.items : d.items[i].s = k].items[1]
    ELSE default

\* d.update(e): the value of a key d has is replaced where it stands, a new
\* key goes to the end.
RECURSIVE Update(_, _)
Update(d, e) ==
    IF e.items = <<>> THEN d
    ELSE LET it == Head(e.items)
             d1 == IF Has(d, it.s)
                   THEN PyDict([i \in DOMAIN d.items |->
                                  IF d.items[i].s = it.s THEN it ELSE d.items[i]])
                   ELSE PyDict(Append(d.items, it))
         IN  Update(d1, PyDict(Tail(e.items)))

\* QDataStream.writeString(bytes): the length with the terminator, then the
\* bytes; readString() gives the bytes back.
writeString(text) == [len |-> Len(text) + 1, chars |-> text]

readString(item) == SubSeq(item.chars, 1, item.len - 1)

\* json.loads(text)
json_loads(text) == ReadValue(text, 1).v

\* A QMimeData with one format; MimeData is QMimeData.data(type): <<>> is
\* the null QByteArray.
Mime(type, item) == [type |-> type, item |-> item]

MimeData(mime, type) == IF mime.type = type THEN <<mime.item>> ELSE <<>>

\* qgraph_mime = {'version': QGRAPH_DD_MIME_VERSION}; qgraph_mime.update(data)
qgraph_mime(data) ==
    Update(PyDict(<<Item("version", PyInt(QGRAPH_DD_MIME_VERSION))>>), data)

\* mime.create_qt_mime_data(data)
create_qt_mime_data(data) ==
    Mime(QGRAPH_DD_MIME_TYPE, writeString(JSONEncoder_encode(qgraph_mime(data)).text))

\* Entries of the payloads the model drops (tests/test_qt_js_integration.py,
\* test_drag_drop).
Vertex(dx, dy, width, height, label, more) ==
    PyDict(<<Item("dx", PyInt(dx)), Item("dy", PyInt(dy)), Item("width", PyInt(width)),
             Item("height", PyInt(height)), Item("label", PyStr(label))>> \o more)

VertexEntries ==
    { Vertex(0, 0, 64, 64, "test 1", <<>>),
      Vertex(50, -10, 32, 16, "test 2",
             <<Item("style", PyStr("round")),
               Item("tags", PyDict(<<Item("foo", PyStr("1")), Item("bar", PyStr("a"))>>))>>) }

DecorationEntries ==
    { PyDict(<<Item("width", PyInt(10)), Item("height", PyInt(12)),
               Item("label", PyStr("d 1")), Item("style", PyStr("dec"))>>) }

Versions == {1, 2, -1}

Payloads ==
    { PyDict(ver \o vs \o ds) :
        ver \in {<<>>} \cup {<<Item("version", PyInt(v))>> : v \in Versions},
        vs \in {<<>>} \cup {<<Item("vertices", PyList(l))>> :
                    l \in UNION {[1..k -> VertexEntries] : k \in 0..MaxVertices}},
        ds \in {<<>>} \cup {<<Item("decorations", PyList(l))>> :
                    l \in UNION {[1..k -> DecorationEntries] : k \in 0..MaxDecorations}} }

\* A drag over the widget: the data it carries (payload is what the data
\* was made from), the point of its events, and the zoom scale of the graph
\* in percent.  History: enter, move and verdict are what the handlers did
\* with the events ("accepted", "ignored"); phase, fault and text how the
\* drop stands and what it raised; calls the insert calls it made; todo the
\* calls _on_drop is still to make.
NewDrag(mime, payload, x, y, zoom) ==
    [mime |-> mime, payload |-> payload, x |-> x, y |-> y, zoom |-> zoom,
     enter |-> "none", move |-> "none", phase |-> "none", verdict |-> "none",
     fault |-> "none", text |-> "", calls |-> <<>>, todo |-> <<>>]

NoDrag == NewDrag(Mime("", writeString("")), PyNone, 0, 0, 100)

\* Payloads with an entry that lacks a required key: a vertex without a
\* label after a complete one, and a decoration without a width after a
\* complete vertex and a complete decoration.
FaultyPayloads ==
    LET vertex     == Vertex(0, 0, 64, 64, "test 1", <<>>)
        decoration == PyDict(<<Item("width", PyInt(10)), Item("height", PyInt(12)),
                               Item("label", PyStr("d 1"))>>)
    IN  { PyDict(<<Item("version", PyInt(1)),
                   Item("vertices", PyList(<<vertex,
                        PyDict(<<Item("dx", PyInt(0)), Item("dy", PyInt(0)),
                                 Item("width", PyInt(64)), Item("height", PyInt(64))>>)>>))>>),
          PyDict(<<Item("vertices", PyList(<<vertex>>)),
                   Item("decorations", PyList(<<decoration,
                        PyDict(<<Item("height", PyInt(12)),
                                 Item("label", PyStr("d 2"))>>)>>))>>) }

Drags ==
    { NewDrag(create_qt_mime_data(p), p, at[1], at[2], at[3]) :
        p \in Payloads \cup FaultyPayloads, at \in {<<100, 100, 100>>, <<0, 7, 50>>} }
    \cup { NewDrag(Mime("application/xml", writeString("\"<message>Hello World!</message>\"")),
                   PyNone, 100, 100, 100) }

\* A handler that approves every drag.
ApprovesAll(data) == "accepted"

\* _approve_only_dd_mime_type: acceptProposedAction() when the event has
\* data of the QmxGraph type, ignore() otherwise.
Approves(data) == IF data # <<>> THEN "accepted" ELSE "ignored"

\* _on_drag_enter
on_drag_enter ==
    /\ PumpPoint
    /\ dnd.mime.type # ""
    /\ dnd.phase = "none"
    /\ dnd' = [dnd EXCEPT !.enter = Approves(MimeData(dnd.mime, QGRAPH_DD_MIME_TYPE))]
    /\ UNCHANGED <<view_vars, call_vars, bridge_vars, stack>>
    /\ UNCHANGED <<cb, debug, api, engine, js, evals, poll>>

\* _on_drag_move
on_drag_move ==
    /\ PumpPoint
    /\ dnd.mime.type # ""
    /\ dnd.phase = "none"
    /\ dnd' = [dnd EXCEPT !.move = Approves(MimeData(dnd.mime, QGRAPH_DD_MIME_TYPE))]
    /\ UNCHANGED <<view_vars, call_vars, bridge_vars, stack>>
    /\ UNCHANGED <<cb, debug, api, engine, js, evals, poll>>

\* A version check that lets every version through.
SupportsAll(version) == TRUE

\* "version in (1, 2)"
Supported(version) == version.t = "int" /\ version.n \in {1, 2}

\* Decorations inserted for every supported version.
InsertsDecorationsAlways(version) == TRUE

\* "if version in (2,)"
InsertsDecorations(version) == version.t = "int" /\ version.n \in {2}

\* A vertex placed without the zoom scale.
PlacedUnscaled(p, d, size, zoom) == 200 * p + (2 * d - size) * 100

\* "x + (v['dx'] - v['width'] * 0.5) * scale" in units of 1/200, the scale
\* being zoom / 100.
Placed(p, d, size, zoom) == 200 * p + (2 * d - size) * zoom

\* The API calls of _on_drop for the parsed payload, in order.
Steps(parsed, version) ==
    LET vertices    == Get(parsed, "vertices", PyList(<<>>)).items
        decorations == Get(parsed, "decorations", PyList(<<>>)).items
    IN  << [fn |-> "getZoomScale", entry |-> PyNone] >>
        \o [i \in DOMAIN vertices |-> [fn |-> "insertVertex", entry |-> vertices[i]]]
        \o (IF InsertsDecorations(version)
            THEN [i \in DOMAIN decorations |->
                    [fn |-> "insertDecoration", entry |-> decorations[i]]]
            ELSE <<>>)

\* The arguments of self.api.insert_vertex / insert_decoration for the entry
\* of step st (x and y in units of 1/200).
InsertCall(st, x, y, zoom) ==
    LET v == st.entry IN
    [fn |-> st.fn,
     x |-> IF st.fn = "insertVertex"
           THEN Placed(x, Get(v, "dx", PyNone).n, Get(v, "width", PyNone).n, zoom)
           ELSE 200 * x,
     y |-> IF st.fn = "insertVertex"
           THEN Placed(y, Get(v, "dy", PyNone).n, Get(v, "height", PyNone).n, zoom)
           ELSE 200 * y,
     width |-> Get(v, "width", PyNone).n,
     height |-> Get(v, "height", PyNone).n,
     label |-> Get(v, "label", PyNone).s,
     style |-> Get(v, "style", PyNone),
     tags |-> Get(v, "tags", PyDict(<<>>))]

\* The keys of the entry _on_drop reads with v[key] before it makes the call
\* of the step, in the order it reads them.
RequiredKeys(fn) ==
    IF fn = "insertVertex" THEN <<"dx", "width", "dy", "height", "label">>
    ELSE IF fn = "insertDecoration" THEN <<"width", "height", "label">>
    ELSE <<>>

\* The key v[key] raises KeyError for: the first required key the entry of
\* the step lacks ("": it has them all).
MissingKey(st) ==
    LET keys == RequiredKeys(st.fn)
        lacks == {i \in DOMAIN keys : ~Has(st.entry, keys[i])}
    IN  IF lacks = {} THEN ""
        ELSE keys[CHOOSE i \in lacks : \A j \in lacks : i <= j]

\* _on_drop up to its first API call: the event is ignored, or the payload
\* is read and its version checked.
on_drop ==
    /\ stack = <<>>
    /\ dnd.mime.type # ""
    /\ dnd.phase = "none"
    /\ LET data == MimeData(dnd.mime, QGRAPH_DD_MIME_TYPE) IN
        IF data = <<>>
        THEN /\ dnd' = [dnd EXCEPT !.phase = "done", !.verdict = "ignored"]
             /\ UNCHANGED stack
        ELSE LET parsed  == json_loads(readString(data[1]))
                 version == Get(parsed, "version", PyNone)
             IN  IF ~Supported(version)
                 THEN /\ dnd' = [dnd EXCEPT
                                   !.phase = "done", !.fault = "ValueError",
                                   !.text = "Unsupported version of QmxGraph MIME data: "
                                            \o ToString(version.n)]
                      /\ UNCHANGED stack
                 ELSE /\ dnd' = [dnd EXCEPT !.phase = "running",
                                            !.todo = Steps(parsed, version)]
                      /\ stack' = Append(stack, Frame("drop"))
    /\ UNCHANGED <<view_vars, call_vars, bridge_vars>>
    /\ UNCHANGED <<cb, debug, api, engine, js, evals, poll>>

\* _on_drop goes on: the exception of the call it made leaves it, or the
\* entry of its next call lacks a key and KeyError leaves it, or it makes its
\* next call (get_zoom_scale, insert_vertex and insert_decoration wait for
\* the engine), or it accepts the event and returns.
drop_step ==
    /\ Top.kind = "drop"
    /\ IF Top.fault # "none"
       THEN /\ dnd' = [dnd EXCEPT !.phase = "done",
                                  !.fault = IF Top.fault = "timeout" THEN TimeoutFault
                                            ELSE StateFault]
            /\ stack' = Front(stack)
            /\ UNCHANGED <<counter, delayed, handed>>
       ELSE IF dnd.todo = <<>>
       THEN /\ dnd' = [dnd EXCEPT !.phase = "done", !.verdict = "accepted"]
            /\ stack' = Front(stack)
            /\ UNCHANGED <<counter, delayed, handed>>
       ELSE IF MissingKey(Head(dnd.todo)) # ""
       THEN /\ dnd' = [dnd EXCEPT !.phase = "done", !.fault = "KeyError",
                                  !.text = MissingKey(Head(dnd.todo))]
            /\ stack' = Front(stack)
            /\ UNCHANGED <<counter, delayed, handed>>
       ELSE /\ dnd' = [dnd EXCEPT
                         !.todo = Tail(@),
                         !.calls = IF Head(dnd.todo).fn = "getZoomScale" THEN @
                                   ELSE Append(@, InsertCall(Head(dnd.todo),
                                                             dnd.x, dnd.y, dnd.zoom))]
            /\ Call("drop", TRUE, TRUE, TRUE, stack)
    /\ UNCHANGED <<posted, arrived, emitted, scopes, ncalls, raised>>
    /\ UNCHANGED view_vars
    /\ UNCHANGED <<cb, debug, api, engine, js, evals, poll>>

\* ------------------------------------------- eval_js: the result of each call
\* The value the engine produces for the k-th script handed to it.  Every
\* script has a value of its own here, so that the result of one call can be
\* told from the result of another.
ScriptResult(k) == "result " \o ToString(k)

\* The k-th synchronous eval_js call when it starts to wait: cb is the
\* _Callback object wait_callback_called has created for it, inside the call
\* in whose wait it was made (0: none), answered whether the engine has
\* invoked the callback given to runJavaScript with its script.
NewEval(inside) ==
    [cb |-> NewCallback("Callback", "eval_js"), inside |-> inside, answered |-> FALSE]

\* The eval_js calls whose wait has not ended.
Waiting(evs) == {k \in DOMAIN evs : evs[k].cb.phase = "waiting"}

\* The call whose wait_until is running: the one started last (0: none).
\* The calls it was made inside of are suspended below it.
Innermost(evs) ==
    IF Waiting(evs) = {} THEN 0
    ELSE CHOOSE k \in Waiting(evs) : \A j \in Waiting(evs) : j <= k

\* A view that keeps one callback for all its calls: a result goes to the
\* call that is waiting.
SharedCallback(k, evs) == IF Innermost(evs) = 0 THEN k ELSE Innermost(evs)

\* page().runJavaScript(script, callback): the callback invoked with the
\* result of the k-th script is the object created by the k-th call.
CallbackOf(k, evs) == k

\* eval_js(script) in GraphLoaded: from an event handler, or from a listener
\* or handler that runs inside the wait of another call.
eval_js ==
    /\ Len(evals) < MaxEvals
    /\ evals' = Append(evals, NewEval(Innermost(evals)))
    /\ UNCHANGED <<view_vars, call_vars, bridge_vars, stack>>
    /\ UNCHANGED <<cb, debug, api, engine, js, dnd, poll>>

\* The engine has run the k-th script: the event loop invokes the callback
\* that was given to runJavaScript with it, whether its call still waits or
\* has timed out.
run_javascript_callback(k) ==
    /\ k \in DOMAIN evals
    /\ ~evals[k].answered
    /\ LET j == CallbackOf(k, evals)
           e == [evals EXCEPT ![k].answered = TRUE]
       IN  evals' = [e EXCEPT ![j].cb = Callback_call(@, <<ScriptResult(k)>>)]
    /\ UNCHANGED <<view_vars, call_vars, bridge_vars, stack>>
    /\ UNCHANGED <<cb, debug, api, engine, js, dnd, poll>>

\* wait_until(callback.was_called) of the running call finds the callback
\* called: eval_js returns callback.args[0].
eval_js_return ==
    /\ Innermost(evals) # 0
    /\ LET k == Innermost(evals) IN
        /\ was_called(evals[k].cb)
        /\ evals' = [evals EXCEPT ![k].cb =
                        [@ EXCEPT !.phase = "returned",
                                  !.fault = EvalResult(evals[k].cb).fault,
                                  !.result = EvalResult(evals[k].cb).value]]
    /\ UNCHANGED <<view_vars, call_vars, bridge_vars, stack>>
    /\ UNCHANGED <<cb, debug, api, engine, js, dnd, poll>>

\* wait_until of the running call finds the callback not called and the
\* deadline passed: TimeoutError.
eval_js_timeout ==
    /\ Innermost(evals) # 0
    /\ LET k == Innermost(evals) IN
        /\ ~was_called(evals[k].cb)
        /\ evals' = [evals EXCEPT ![k].cb =
                        [@ EXCEPT !.phase = "timeout", !.fault = TimeoutFault]]
    /\ UNCHANGED <<view_vars, call_vars, bridge_vars, stack>>
    /\ UNCHANGED <<cb, debug, api, engine, js, dnd, poll>>

\* -------------------------------------------- waiting.py: the wait_until loop
\* The loop of wait_until, one iteration at a time.  poll.phase is the place
\* of the loop: "predicate" (about to call predicate()), "timed_out" (the
\* predicate was false, about to call timed_out()), "qWait" (about to call
\* QTest.qWait), "returned", "raised" (TimeoutError), "none" (no loop yet).
\* elapsed is perf_counter() - start in milliseconds, and every value past
\* the largest timeout is the one value MaxTimeout + 1; holds is what
\* predicate() would return now; found is what its last call returned.

\* No wait_until loop has run yet.
NoPoll ==
    [phase |-> "none", timeout |-> 0, interval |-> 1, elapsed |-> 0,
     holds |-> FALSE, found |-> FALSE, polls |-> 0, checks |-> 0, waits |-> 0]

Running == {"predicate", "timed_out", "qWait"}

\* "elapsed_ms > timeout_ms" of the inner function timed_out.
timed_out(p) == p.elapsed > p.timeout

\* An iteration that looks at the deadline first and at the result of
\* predicate() only when the deadline has not passed.
DeadlineFirst(p, result) ==
    IF timed_out(p) THEN "raised" ELSE IF result THEN "returned" ELSE "qWait"

\* "result = predicate(); if result: return; else: if timed_out(): ...":
\* where the loop goes after predicate() returned result.
AfterPredicate(p, result) == IF result THEN "returned" ELSE "timed_out"

\* perf_counter() after d more milliseconds.
Later(p, d) ==
    IF p.elapsed + d > MaxTimeout THEN MaxTimeout + 1 ELSE p.elapsed + d

\* wait_until(predicate, timeout_ms=..., wait_interval_ms=...) is called:
\* "start = time.perf_counter()".  The predicate may hold already.
wait_until_enter(timeout_ms, wait_interval_ms, holds) ==
    /\ poll.phase \notin Running
    /\ poll' = [NoPoll EXCEPT !.phase = "predicate", !.timeout = timeout_ms,
                              !.interval = wait_interval_ms, !.holds = holds]
    /\ UNCHANGED <<view_vars, call_vars, bridge_vars, stack>>
    /\ UNCHANGED <<cb, debug, api, engine, js, dnd, evals>>

\* Time passes while the loop runs its own statements.
perf_counter ==
    /\ poll.phase \in Running
    /\ poll.elapsed <= MaxTimeout
    /\ poll' = [poll EXCEPT !.elapsed = Later(poll, 1)]
    /\ UNCHANGED <<view_vars, call_vars, bridge_vars, stack>>
    /\ UNCHANGED <<cb, debug, api, engine, js, dnd, evals>>

\* "result = predicate()" and "if result: return".
predicate ==
    /\ poll.phase = "predicate"
    /\ poll' = [poll EXCEPT !.phase = AfterPredicate(poll, poll.holds),
                            !.found = poll.holds, !.polls = @ + 1]
    /\ UNCHANGED <<view_vars, call_vars, bridge_vars, stack>>
    /\ UNCHANGED <<cb, debug, api, engine, js, dnd, evals>>

\* "if timed_out(): raise TimeoutError(msg)".
check_timed_out ==
    /\ poll.phase = "timed_out"
    /\ poll' = [poll EXCEPT !.phase = IF timed_out(poll) THEN "raised" ELSE "qWait",
                            !.checks = @ + 1]
    /\ UNCHANGED <<view_vars, call_vars, bridge_vars, stack>>
    /\ UNCHANGED <<cb, debug, api, engine, js, dnd, evals>>

\* "QTest.qWait(wait_interval_ms)": the event loop runs for the interval at
\* least, and the events it processes may change what the predicate returns.
qWait ==
    /\ poll.phase = "qWait"
    /\ \E d \in poll.interval..(MaxTimeout + 1) : \E holds \in BOOLEAN :
           poll' = [poll EXCEPT !.phase = "predicate", !.elapsed = Later(poll, d),
                                !.holds = holds, !.waits = @ + 1]
    /\ UNCHANGED <<view_vars, call_vars, bridge_vars, stack>>
    /\ UNCHANGED <<cb, debug, api, engine, js, dnd, evals>>

\* A new widget (QmxGraph.__init__), drag&drop aside.
Fresh ==
    /\ view_state = "Blank"
    /\ loads = <<>>
    /\ finished = "none"
    /\ block_updates = FALSE
    /\ block_signals = FALSE
    /\ handed = [origin |-> "none", state |-> "none"]
    /\ ncalls = 0
    /\ raised = "none"
    /\ counter = [b \in Bridges |-> 0]
    /\ delayed = [b \in Bridges |-> <<>>]
    /\ posted = <<>>
    /\ arrived = <<>>
    /\ emitted = <<>>
    /\ stack = <<>>
    /\ scopes = 0
    /\ requests = <<>>
    /\ all_ok = TRUE
    /\ waited = [n |-> 0, result |-> "none"]
    /\ once = <<>>
    /\ cb = NoCallback
    /\ debug = FALSE
    /\ api = NoCall
    /\ engine = [scripts |-> <<>>, out |-> <<>>, log |-> <<>>]
    /\ js = NoStatement
    /\ evals = <<>>
    /\ poll = NoPoll

Init == Fresh /\ dnd = NoDrag

\* A bridge on its own, driven by slot invocations, the event loop and
\* delaying scopes (tests/test_qt_js_integration.py,
\* test_events_bridge_delayed_signals).
BridgeNext ==
    \/ \E b \in Inbound : \E s \in SignalsOf(b) : async_slot(b, s)
    \/ event
    \/ Emit
    \/ \E b \in Inbound : EnterDelaying(<<b>>)
    \/ EnterDelaying(EnterOrder)
    \/ LeaveBody
    \/ ExitDelaying

BridgeSpec == Init /\ [][BridgeNext]_vars

\* The events bridge with scopes opened on it alone.
FairBridgeNext ==
    \/ \E b \in Inbound : \E s \in SignalsOf(b) : async_slot(b, s)
    \/ event
    \/ Emit
    \/ \E b \in Inbound : EnterDelaying(<<b>>)
    \/ LeaveBody
    \/ ExitDelaying

\* That bridge when every scope body ends (normally or by an exception), every
\* finally clause runs and every signal.emit call returns.
FairBridgeSpec ==
    /\ Init /\ [][FairBridgeNext]_vars
    /\ WF_vars(LeaveBody)
    /\ WF_vars(ExitDelaying)
    /\ WF_vars(Emit)

\* The widget: the view lifecycle, the API calls of host code and of the
\* finalize hook, and the event loop that delivers load completions and
\* script results.
Next ==
    \/ Load
    \/ Blank
    \/ Close
    \/ \E ok \in BOOLEAN : LoadFinished(ok)
    \/ Finalize
    \/ \E sync \in BOOLEAN, scoped \in BOOLEAN : StartCall(sync, scoped)
    \/ \E i \in 1..Len(stack) : Reply(i)
    \/ CallReturn
    \/ CallTimeout

Spec == Init /\ [][Next]_vars

\* The view of the src layout under the widget: requests, the waiting
\* variants of load and blank, and load completions.
ViewNext ==
    \/ load_graph
    \/ blank
    \/ closeEvent
    \/ \E ok \in BOOLEAN : on_load_finished(ok)
    \/ load_and_wait
    \/ blank_and_wait
    \/ wait_return
    \/ wait_timeout

ViewSpec == Init /\ [][ViewNext]_vars

\* The widget with functions passed to call_once_when_loaded: requests, load
\* completions and the finalize hook with its waiting calls.
OnceNext ==
    \/ call_once_when_loaded
    \/ Load
    \/ Blank
    \/ Close
    \/ \E ok \in BOOLEAN : LoadFinished(ok)
    \/ Finalize
    \/ \E i \in 1..Len(stack) : Reply(i)
    \/ CallReturn
    \/ CallTimeout

OnceSpec == Init /\ [][OnceNext]_vars

\* The widget after load_and_wait() of a new widget has returned (the
\* loaded_graph fixture of the tests): the page is loaded, the finalize hook
\* has made its calls and GraphLoaded is assigned; drag&drop aside.
Loaded ==
    /\ view_state = "GraphLoaded"
    /\ loads = <<>>
    /\ finished = "ok"
    /\ block_updates = FALSE
    /\ block_signals = FALSE
    /\ handed = [origin |-> "finalize", state |-> "LoadingGraph"]
    /\ ncalls = 0
    /\ raised = "none"
    /\ counter = [b \in Bridges |-> 0]
    /\ delayed = [b \in Bridges |-> <<>>]
    /\ posted = <<>>
    /\ arrived = <<>>
    /\ emitted = <<>>
    /\ stack = <<>>
    /\ scopes = 0
    /\ requests = <<>>
    /\ all_ok = TRUE
    /\ waited = [n |-> 0, result |-> "none"]
    /\ once = <<>>
    /\ cb = NoCallback
    /\ debug = FALSE
    /\ api = NoCall
    /\ engine = [scripts |-> <<>>, out |-> <<>>, log |-> <<>>]
    /\ js = NoStatement
    /\ evals = <<>>
    /\ poll = NoPoll

LoadedInit == Loaded /\ dnd = NoDrag

\* API calls of host code on a loaded graph, in and out of debug mode, with
\* the page that runs the scripts and the event loop that brings back what
\* the page logs and returns.
ApiNext ==
    \/ \E enabled \in BOOLEAN : set_qmxgraph_debug(enabled)
    \/ \E fn \in {"insertVertex", "BOOM"}, sync \in BOOLEAN : call_api(fn, sync)
    \/ run_script
    \/ deliver
    \/ api_return
    \/ api_timeout
    \/ Close

ApiSpec == LoadedInit /\ [][ApiNext]_vars

\* A drag over a new or a loaded widget: its events, the drop with its API
\* calls, the event loop that brings their results, and the close of the
\* widget.
DropInit == (Fresh \/ Loaded) /\ dnd \in Drags

DropNext ==
    \/ on_drag_enter
    \/ on_drag_move
    \/ on_drop
    \/ drop_step
    \/ \E i \in 1..Len(stack) : Reply(i)
    \/ CallReturn
    \/ CallTimeout
    \/ Close

DropSpec == DropInit /\ [][DropNext]_vars

\* prepare_js_call on its own, for every function name and argument tuple
\* of the model.
JsNext ==
    \E fn \in FnNames : \E n \in 0..MaxJsArgs : \E args \in [1..n -> JsArgs] :
        prepare_js_call(fn, args)

JsSpec == Init /\ [][JsNext]_vars

\* A synchronous wait on its own: the callback object, its invocations and
\* the end of the wait.
WaitNext ==
    \/ \E w \in Waits : wait_callback_called(w[1], w[2])
    \/ \E a \in ArgTuples : callback_call(a)
    \/ wait_until

WaitSpec == Init /\ [][WaitNext]_vars

\* API calls of host code and of listeners on a loaded graph: the page
\* notifies the events bridge, the event loop delivers posted notifications
\* and script results, calls made through call_api hold the delaying scopes
\* of delayed_bridges_context, and the widget can be closed.
NotifyNext ==
    \/ \E b \in Inbound : \E s \in SignalsOf(b) : async_slot(b, s)
    \/ event
    \/ Emit
    \/ ExitDelaying
    \/ \E sync \in BOOLEAN : StartCall(sync, TRUE)
    \/ \E i \in 1..Len(stack) : Reply(i)
    \/ CallReturn
    \/ CallTimeout
    \/ Close

NotifySpec == LoadedInit /\ [][NotifyNext]_vars

\* The same for cells-added notifications (test_qt_js_integration.py,
\* test_bridges_signal_handlers_can_call_api), without the close of the
\* widget, when the engine answers every
\* script before the deadline of its wait: the event loop delivers every
\* posted event and every script result, wait_until sees the result, every
\* signal.emit call returns and every finally clause runs.
FairNotifyNext ==
    \/ async_slot("events", "on_cells_added")
    \/ event
    \/ Emit
    \/ ExitDelaying
    \/ \E sync \in BOOLEAN : StartCall(sync, TRUE)
    \/ \E i \in 1..Len(stack) : Reply(i)
    \/ CallReturn

FairNotifySpec ==
    /\ LoadedInit /\ [][FairNotifyNext]_vars
    /\ WF_vars(event)
    /\ WF_vars(Emit)
    /\ WF_vars(ExitDelaying)
    /\ WF_vars(\E i \in 1..Len(stack) : Reply(i))
    /\ WF_vars(CallReturn)

\* Synchronous eval_js calls on a loaded graph, nested in each other's waits
\* or one after the other, with the engine answering in any order and at any
\* time.
EvalNext ==
    \/ eval_js
    \/ \E k \in 1..Len(evals) : run_javascript_callback(k)
    \/ eval_js_return
    \/ eval_js_timeout

EvalSpec == LoadedInit /\ [][EvalNext]_vars

\* A wait_until loop on its own.  Each statement of the loop is taken in the
\* end: Python runs on, and qWait returns when its interval is over.
PollNext ==
    \/ \E t \in 0..MaxTimeout : \E i \in 1..MaxTimeout : \E holds \in BOOLEAN :
           wait_until_enter(t, i, holds)
    \/ perf_counter
    \/ predicate
    \/ check_timed_out
    \/ qWait

PollSpec ==
    /\ Init /\ [][PollNext]_vars
    /\ WF_vars(predicate) /\ WF_vars(check_timed_out) /\ WF_vars(qWait)

\* --------------------------------------------------------------- properties
\* C1 as stated: a script is handed to the embedded engine only while
\* ViewState is GraphLoaded, the calls of the finalize hook included.
C1_HandedOnlyWhenLoaded == handed.state \in {"none", "GraphLoaded"}

\* A call host code makes with the default state check while ViewState is not
\* GraphLoaded raises the state fault at once: no script is handed over, the
\* state stays, the call does not wait, and the scopes it entered are left.
StateFaultStep ==
    (ncalls' = ncalls + 1 /\ view_state # "GraphLoaded") =>
        /\ raised' = "state_fault"
        /\ handed' = handed
        /\ view_state' = view_state
        /\ stack' = stack
        /\ counter' = counter

\* C2: in every ViewState other than GraphLoaded, call_api / eval_js (waiting
\* or fire-and-forget) with the default state check raises a state fault,
\* hands no script to the engine and leaves ViewState unchanged.
C2_StateFault == [][StateFaultStep]_vars

\* C2 happens: a call has raised the state fault after a failed load and no
\* script was ever handed to the engine.
C2_Witness ==
    /\ raised = "state_fault"
    /\ view_state = "LoadingError"
    /\ handed.origin = "none"
    /\ stack = <<>>

\* A load request in Blank starts a load and sets LoadingGraph.  A completion
\* delivered in LoadingGraph sets LoadingError when it reports failure; when
\* it reports success the finalize hook starts, and the handler sets
\* GraphLoaded when the hook has returned.
LoadStep ==
    /\ (view_state = "Blank" /\ Len(loads') = Len(loads) + 1 /\ Last(loads') = "graph") =>
          view_state' = "LoadingGraph"
    /\ (view_state = "LoadingGraph" /\ Len(loads') = Len(loads) - 1) =>
          IF finished' = "failed"
          THEN view_state' = "LoadingError" /\ stack' = stack
          ELSE /\ finished' = "ok"
               /\ stack' = Append(stack, [Frame("finalize") EXCEPT !.fns = FinalizeCalls])
    /\ (Top.kind = "finalize" /\ Len(stack') < Len(stack)) =>
          view_state' = "GraphLoaded"

\* C10: from Blank a load request sets ViewState to LoadingGraph; the next
\* load completion then sets it to GraphLoaded if it reports success and to
\* LoadingError if it reports failure.
C10_LoadTransitions == [][LoadStep]_vars

\* C10 happens: the only load ever requested has completed with success, its
\* handler has returned and the graph is loaded.
C10_Witness ==
    /\ view_state = "GraphLoaded"
    /\ finished = "ok"
    /\ loads = <<>>
    /\ stack = <<>>
    /\ handed.origin = "finalize"

\* The n-th notification arrived while its bridge was delaying.
Queued(n) == n \in DOMAIN arrived /\ arrived[n].depth > 0

\* The n-th notification arrived while its bridge was not delaying.
Direct(n) == n \in DOMAIN arrived /\ arrived[n].depth = 0

\* Number of places of the sequence s that hold x.
Occ(s, x) == Cardinality({i \in DOMAIN s : s[i] = x})

\* Number of entries of the queue d that hold the notification n.
InQueue(d, n) ==
    Cardinality({p \in UNION {{<<i, j>> : j \in DOMAIN d[i].args} : i \in DOMAIN d} :
                    d[p[1]].args[p[2]] = n})

\* Number of times a signal.emit of n is still to come in a running flush.
InFlush(n) ==
    Cardinality({p \in UNION {{<<i, j>> : j \in DOMAIN stack[i].ids} : i \in DOMAIN stack} :
                    stack[p[1]].kind = "emit" /\ stack[p[1]].ids[p[2]] = n})

\* The position of n in emitted (0: not emitted).
EmittedAt(n) ==
    IF n \in Range(emitted) THEN CHOOSE i \in DOMAIN emitted : emitted[i] = n ELSE 0

\* Nothing is running and no bridge is delaying.
Quiet == stack = <<>> /\ \A b \in Bridges : counter[b] = 0

\* C3: every notification queued during a delaying scope is, at any time, in
\* exactly one place: in the queue of its bridge, in a running flush, or with
\* the listeners (emitted exactly once); a bridge that is not delaying has an
\* empty queue, so after the outermost exit and its flush every queued
\* notification has been emitted exactly once.
C3_FlushedExactlyOnce ==
    /\ \A b \in Bridges : counter[b] = 0 => delayed[b] = <<>>
    /\ \A n \in DOMAIN arrived :
          Queued(n) =>
              /\ InQueue(delayed[arrived[n].bridge], n) + InFlush(n) + Occ(emitted, n) = 1
              /\ Quiet => Occ(emitted, n) = 1

\* C3 happens: two notifications queued in a scope have both been emitted and
\* the flush has returned.
C3_Witness ==
    /\ Quiet
    /\ \E m, n \in DOMAIN arrived :
          m < n /\ Queued(m) /\ Queued(n) /\ {m, n} \subseteq Range(emitted)

\* The ids of a sequence are in arrival order.
Ascending(ids) == \A i, j \in DOMAIN ids : i < j => ids[i] < ids[j]

\* C4 as stated: a flush emits the queued notifications of its bridge in
\* their overall arrival order, whatever their event names.
C4_FlushInArrivalOrder ==
    \A i \in DOMAIN stack : stack[i].kind = "emit" => Ascending(stack[i].ids)

\* Number of flushes of the bridge b that are running.
FlushesOf(b) == Cardinality({i \in DOMAIN stack : stack[i].kind = "emit" /\ stack[i].b = b})

\* The notifications the queue d holds.
QueueIds(d) == UNION {Range(d[i].args) : i \in DOMAIN d}

\* A step that leaves a delaying scope of the bridge b calls no listener; when
\* the scope was an inner one the queue stays as it is and no flush starts,
\* when it was the outermost one the queue is emptied and exactly one flush
\* starts, holding every notification of the queue.
ExitStep(b) ==
    counter'[b] < counter[b] =>
        /\ counter'[b] = counter[b] - 1
        /\ emitted' = emitted
        /\ IF counter'[b] > 0
           THEN /\ delayed'[b] = delayed[b]
                /\ FlushesOf(b)' = FlushesOf(b)
           ELSE /\ delayed'[b] = <<>>
                /\ IF delayed[b] = <<>>
                   THEN FlushesOf(b)' = FlushesOf(b)
                   ELSE /\ FlushesOf(b)' = FlushesOf(b) + 1
                        /\ Top'.kind = "emit" /\ Top'.b = b
                        /\ Range(Top'.ids) = QueueIds(delayed[b])

\* C5: nested delaying scopes on one bridge flush only when the outermost
\* scope exits: an inner exit emits nothing and keeps the queue, the outermost
\* exit starts exactly one flush.
C5_OutermostExitFlushes == [][\A b \in Bridges : ExitStep(b)]_vars

\* C5 happens: after enter; enter; exit the notification queued in the inner
\* scope is still queued and nothing has been emitted.
C5_Witness ==
    /\ counter["events"] = 1
    /\ emitted = <<>>
    /\ \E n \in DOMAIN arrived :
          arrived[n].depth = 2 /\ InQueue(delayed["events"], n) = 1

\* A notification that arrives while its bridge is delaying goes to the queue
\* and nowhere else, and a notification leaves the queue only in the step
\* that takes the counter of its bridge from one to zero.
DelayStep ==
    /\ (Len(arrived') = Len(arrived) + 1 /\ counter[Last(arrived').bridge] > 0) =>
          /\ InQueue(delayed'[Last(arrived').bridge], Len(arrived')) = 1
          /\ posted' = posted
          /\ emitted' = emitted
          /\ stack' = stack
    /\ \A n \in DOMAIN arrived :
          (/\ InQueue(delayed[arrived[n].bridge], n) = 1
           /\ InQueue(delayed'[arrived[n].bridge], n) = 0) =>
              /\ counter[arrived[n].bridge] = 1
              /\ counter'[arrived[n].bridge] = 0

\* While a notification is in the queue its bridge is delaying, and it is
\* neither posted to the event loop, nor in a flush, nor with the listeners.
HeldBack ==
    \A n \in DOMAIN arrived :
        /\ Queued(n) => n \notin Range(posted)
        /\ InQueue(delayed[arrived[n].bridge], n) > 0 =>
              /\ Queued(n)
              /\ counter[arrived[n].bridge] > 0
              /\ InFlush(n) = 0
              /\ n \notin Range(emitted)

\* C6: a notification that arrives while the delaying counter of its bridge
\* is greater than zero is not delivered to listeners for as long as the
\* scope stays open, whatever the event loop does inside the scope; it leaves
\* the queue, to be delivered, only when the outermost scope exits.
C6_HeldWhileDelaying == []HeldBack /\ [][DelayStep]_vars

\* C6 happens: the event loop runs inside an open scope and delivers a posted
\* notification to its listeners while another one stays in the queue.
C6_Witness ==
    /\ Len(stack) = 2
    /\ stack[1].kind = "scope"
    /\ stack[2].kind = "emit" /\ stack[2].cur # 0
    /\ delayed["events"] # <<>>

\* C7: every notification queued by a bridge while delaying is eventually
\* emitted to listeners, whatever scopes are entered and left meanwhile.
C7_QueuedEventuallyEmitted ==
    []<>(\A n \in DOMAIN arrived : Queued(n) => n \in Range(emitted))

\* C7 happens: a notification queued inside nested scopes has been emitted
\* and every scope is closed.
C7_Witness ==
    /\ Quiet
    /\ \E n \in DOMAIN arrived : arrived[n].depth = 2 /\ n \in Range(emitted)

\* A slot invoked while its bridge is not delaying posts the notification
\* and returns: no listener is called and nothing is put on the stack.  A
\* posted notification leaves the event queue only when the event loop
\* dispatches it, and its listeners are called after that.
PostStep ==
    /\ (Len(arrived') = Len(arrived) + 1 /\ counter[Last(arrived').bridge] = 0) =>
          /\ posted' = Append(posted, Len(arrived'))
          /\ emitted' = emitted
          /\ stack' = stack
          /\ delayed' = delayed
    /\ \A n \in Range(posted) \ Range(posted') :
          /\ PumpPoint
          /\ emitted' = emitted
          /\ Top' = [Frame("emit") EXCEPT !.b = arrived[n].bridge, !.ids = <<n>>]

\* A notification that arrived in non-delaying mode is in exactly one place:
\* in the event queue, in the dispatch of its event, or with the listeners.
PostedOnce ==
    \A n \in DOMAIN arrived :
        Direct(n) =>
            /\ InQueue(delayed[arrived[n].bridge], n) = 0
            /\ Occ(posted, n) + InFlush(n) + Occ(emitted, n) = 1

\* C8: in non-delaying mode an inbound notification is never delivered to
\* listeners inside the slot invocation: when the slot returns no listener
\* has been called, and the notification is delivered when the event loop
\* later processes the posted event.
C8_NeverSynchronous == []PostedOnce /\ [][PostStep]_vars

\* C8 happens: a slot has returned in non-delaying mode, the notification is
\* posted and no listener has been called.
C8_Witness ==
    /\ Quiet
    /\ posted # <<>>
    /\ emitted = <<>>

\* C9: two notifications of the same event name that arrive at a bridge in
\* non-delaying mode reach listeners in the order they arrived.
C9_DirectInArrivalOrder ==
    \A m, n \in DOMAIN arrived :
        (/\ m < n
         /\ Direct(m) /\ Direct(n)
         /\ arrived[m].bridge = arrived[n].bridge
         /\ arrived[m].signal = arrived[n].signal
         /\ n \in Range(emitted)) =>
            /\ m \in Range(emitted)
            /\ EmittedAt(m) < EmittedAt(n)

\* C9 happens: two back-to-back notifications of one event name, both
\* arrived in non-delaying mode, have both reached the listeners.
C9_Witness ==
    \E m \in DOMAIN arrived :
        /\ m + 1 \in DOMAIN arrived
        /\ Direct(m) /\ Direct(m + 1)
        /\ arrived[m].signal = arrived[m + 1].signal
        /\ {m, m + 1} \subseteq Range(emitted)

\* The step is a request of the given kind.
IsRequest(kind) == Len(requests') = Len(requests) + 1 /\ Last(requests') = kind

\* The step delivers a load completion.
IsCompletion == Len(loads') = Len(loads) - 1

\* A blank request in GraphLoaded or Blank starts the load of the empty page
\* and sets LoadingBlank; a successful completion delivered in LoadingBlank
\* sets Blank, so is_loaded() is false.
BlankStep ==
    /\ (IsRequest("blank") /\ view_state \in {"GraphLoaded", "Blank"}) =>
          /\ view_state' = "LoadingBlank"
          /\ loads' = Append(loads, "blank")
    /\ (IsCompletion /\ view_state = "LoadingBlank" /\ finished' = "ok") =>
          /\ view_state' = "Blank"
          /\ view_state' # "GraphLoaded"

\* C11: from GraphLoaded or Blank a blank request sets ViewState to
\* LoadingBlank, and a successful load completion then sets it to Blank,
\* after which is_loaded() is false.
C11_BlankTransitions == [][BlankStep]_vars

\* C11 happens: a loaded graph was blanked, the completion of the blank has
\* been delivered with success and the page is blank.
C11_Witness ==
    /\ requests = <<"load", "blank">>
    /\ view_state = "Blank"
    /\ finished = "ok"
    /\ loads = <<>>
    /\ block_updates

\* C12: a load request issued while ViewState is GraphLoaded or LoadingGraph
\* is a no-op: ViewState is unchanged and no new page load is started.
C12_LoadCollapses ==
    [][(IsRequest("load") /\ view_state \in {"GraphLoaded", "LoadingGraph"}) =>
          (view_state' = view_state /\ loads' = loads)]_vars

\* C12 happens: a second load was requested while the first was in flight and
\* there is still one page load.
C12_Witness ==
    /\ requests = <<"load", "load">>
    /\ view_state = "LoadingGraph"
    /\ loads = <<"graph">>

\* C13 as stated: a blank request issued while ViewState is Blank or
\* LoadingBlank is a no-op: ViewState is unchanged and no new page load is
\* started.
C13_BlankCollapses ==
    [][(IsRequest("blank") /\ view_state \in {"Blank", "LoadingBlank"}) =>
          (view_state' = view_state /\ loads' = loads)]_vars

\* C14 as stated: once ViewState is Closing it stays Closing, whatever
\* request or load completion follows.
C14_ClosingIsTerminal ==
    [][view_state = "Closing" => view_state' = "Closing"]_vars

\* The step is a call of load_and_wait or blank_and_wait.
IsWaitCall == waited'.n = waited.n + 1

C16_ErrorIsSticky ==
    [][(view_state = "LoadingError" /\ view_state' # "LoadingError") =>
          (Len(loads') = Len(loads) + 1 \/ view_state' = "Closing")]_vars

\* The state the transition table predicts when the requests rs have
\* settled: Closing once close was requested, else GraphLoaded after a last
\* load and Blank after a last blank.
Predicted(rs) ==
    IF "close" \in Range(rs) THEN "Closing"
    ELSE IF Last(rs) = "load" THEN "GraphLoaded"
    ELSE "Blank"

\* C17 as stated: once every pending load completion has been delivered, all
\* reporting success, ViewState is the state the transition table predicts
\* for the requests made (in particular neither LoadingGraph nor
\* LoadingBlank).
C17_SettlesAsPredicted ==
    (requests # <<>> /\ loads = <<>> /\ all_ok) => view_state = Predicted(requests)

\* Without close requests the transition table and the code agree.
SettlesWithoutClose ==
    (requests # <<>> /\ loads = <<>> /\ all_ok /\ "close" \notin Range(requests)) =>
        view_state = Predicted(requests)

\* C18 as stated: the web channel is blocked exactly when ViewState is not
\* GraphLoaded, from construction on, and update-blocking and
\* signal-blocking have the same value.
C18_BlockedUnlessLoaded ==
    /\ block_updates = (view_state # "GraphLoaded")
    /\ block_signals = block_updates

\* Update-blocking and signal-blocking always have the same value.
BlockedTogether == block_signals = block_updates

\* The hook frames on the stack.
Hooks == {i \in DOMAIN stack : stack[i].kind = "finalize"}

\* ViewState becomes GraphLoaded only when the finalize hook returns, with the
\* channel unblocked.
LoadedAfterHook ==
    (view_state' = "GraphLoaded" /\ view_state # "GraphLoaded") =>
        /\ Top.kind = "finalize" /\ Top.fns = <<>>
        /\ ~block_updates' /\ ~block_signals'

\* The finalize hook is fired only by a successful completion delivered in
\* LoadingGraph, after the channel has been unblocked.
HookFiredByLoad ==
    (Len(stack') = Len(stack) + 1 /\ Top'.kind = "finalize") =>
        /\ IsCompletion /\ finished' = "ok" /\ view_state = "LoadingGraph"
        /\ Top'.fns = FinalizeCalls
        /\ ~block_updates' /\ ~block_signals'

\* A running hook issues its calls one after the other and skips none.
HookSkipsNothing ==
    \A i \in Hooks :
        i \in DOMAIN stack' =>
            \/ stack'[i].fns = stack[i].fns
            \/ stack[i].fns # <<>> /\ stack'[i].fns = Tail(stack[i].fns)

\* C19 as stated: every transition into GraphLoaded fires the finalize hook
\* exactly once, after the channel has been unblocked, and no other
\* transition fires it; the hook issues each registration exactly once per
\* load cycle.
C19_HookOncePerLoad ==
    /\ [](Cardinality(Hooks) <= 1)
    /\ [][LoadedAfterHook /\ HookFiredByLoad /\ HookSkipsNothing]_vars

\* A function is called at most once, and it is registered exactly as long
\* as it has not been called; no function is left registered in GraphLoaded.
OnceInv ==
    /\ \A f \in DOMAIN once :
          /\ once[f].calls <= 1
          /\ once[f].reg <=> (once[f].calls = 0)
    /\ view_state = "GraphLoaded" => \A f \in DOMAIN once : ~once[f].reg

\* A function passed in GraphLoaded is called in that step, any other is
\* registered and not called.  A registered function is called in the step
\* that takes ViewState into GraphLoaded, and in no other step: not when a
\* blank or a failed load completes.
OnceStep ==
    /\ Len(once') = Len(once) + 1 =>
          /\ Last(once').calls = (IF view_state = "GraphLoaded" THEN 1 ELSE 0)
          /\ Last(once').reg = (view_state # "GraphLoaded")
          /\ \A f \in DOMAIN once : once'[f] = once[f]
          /\ view_state' = view_state
    /\ Len(once') = Len(once) =>
          \A f \in DOMAIN once :
              /\ once'[f].calls # once[f].calls =>
                    (view_state # "GraphLoaded" /\ view_state' = "GraphLoaded")
              /\ (once[f].reg /\ view_state # "GraphLoaded" /\ view_state' = "GraphLoaded") =>
                    once'[f].calls = once[f].calls + 1

ResolveStep ==
    (cb.phase = "waiting" /\ cb'.phase # "waiting" /\ Len(cb.calls) = 1) =>
        /\ cb'.phase = "returned"
        /\ cb'.args = <<cb.calls[1]>>
        /\ cb.user = "eval_js" =>
                (cb'.fault = "none" /\ cb'.result = <<cb.calls[1][1]>>)

\* C21: invoking the completion callback of a synchronous wait once before
\* the deadline resolves the wait, the wait exposes exactly the arguments of
\* that invocation, and a synchronous eval_js returns the first of them.
C21_OneInvocationResolves == [][ResolveStep]_vars

\* C21 happens: eval_js has returned the first of two arguments that differ.
C21_Witness ==
    /\ cb.user = "eval_js"
    /\ cb.phase = "returned"
    /\ cb.calls = << <<"1", "null">> >>
    /\ cb.result = <<"1">>

\* An invocation of a callback that was invoked before raises the
\* double-invocation fault and leaves the captured arguments alone.
SecondCallStep ==
    (Len(cb'.calls) = Len(cb.calls) + 1 /\ cb.calls # <<>>) =>
        /\ cb'.raised = "CallbackCalledTwiceError"
        /\ cb'.args = cb.args

\* C22 as stated: a second invocation of the completion callback of a
\* synchronous wait raises a double-invocation fault; it is not silently
\* accepted and does not replace the captured result.
C22_SecondInvocationRaises == [][SecondCallStep]_vars

\* The same of the CallbackBlocker alone.
BlockerSecondInvocationRaises == [][cb.impl = "CallbackBlocker" => SecondCallStep]_vars

\* A wait ends with no invocation of its callback: it raises the timeout
\* fault, no arguments are captured and eval_js returns nothing.  Neither an
\* "except" for the state fault nor one for the invalid-call fault catches
\* the timeout fault, and none of those is caught as a timeout.
TimeoutStep ==
    (cb.phase = "waiting" /\ cb'.phase # "waiting" /\ cb.calls = <<>>) =>
        /\ cb'.phase = "timeout"
        /\ cb'.fault = TimeoutFault
        /\ cb'.args = <<>>
        /\ cb'.result = <<>>
        /\ \A f \in {StateFault, InvalidCallFault} :
                ~IsInstance(cb'.fault, f) /\ ~IsInstance(f, cb'.fault)

\* C23: when the completion callback of a synchronous wait is not invoked
\* before the deadline, the wait raises a timeout fault distinct from the
\* state fault and the invalid-call fault, no result is captured, and the
\* synchronous eval_js returns no value.
C23_TimeoutWithoutResult == [][TimeoutStep]_vars

\* C23 happens: eval_js has timed out, and the engine has answered too late.
C23_Witness ==
    /\ cb.user = "eval_js"
    /\ cb.phase = "timeout"
    /\ cb.fault = "TimeoutError"
    /\ cb.result = <<>>
    /\ Len(cb.calls) = 1

\* The state LoadedInit describes is one the widget reaches from Init.
LoadedReached ==
    /\ view_state = "GraphLoaded"
    /\ loads = <<>>
    /\ finished = "ok"
    /\ ~block_updates /\ ~block_signals
    /\ handed = [origin |-> "finalize", state |-> "LoadingGraph"]
    /\ ncalls = 0 /\ raised = "none" /\ stack = <<>> /\ scopes = 0
    /\ \A b \in Bridges : counter[b] = 0 /\ delayed[b] = <<>>
    /\ requests = <<>> /\ once = <<>>

\* A finished call of a function the api does not have, that reached the
\* page and did not time out: in debug mode it has raised the invalid-call
\* fault with a message that names the function, otherwise it has returned
\* null and raised nothing.
MissingDetected ==
    (api.phase = "done" /\ Missing(api.fn) /\ api.fault \notin {StateFault, TimeoutFault}) =>
        IF api.debug
        THEN api.fault = InvalidCallFault /\ api.fn \in api.named
        ELSE api.fault = "none" /\ api.value = <<"null">>

\* C24 as stated: call_api with a function name the engine-side API does not
\* have is detected exactly when the debug flag is enabled: in debug mode the
\* call raises an invalid-call fault that names the missing function, in
\* non-debug mode it returns null and raises nothing.
C24_MissingDetectedIffDebug == MissingDetected

\* The same of synchronous calls alone.
SyncMissingDetected == api.sync => MissingDetected

\* The critical messages the page has logged while running the script of
\* the call.
OwnCritical == SelectSeq(engine.log, LAMBDA m : m.id = api.id /\ m.sev = "critical")

\* A finished call that reached the page and did not time out: in debug
\* mode, when the page has logged a critical message because of it, the call
\* has raised the invalid-call fault with the captured messages joined, the
\* messages of the call among them; out of debug mode it has not raised that
\* fault.
CriticalRaises ==
    (api.phase = "done" /\ api.fault \notin {StateFault, TimeoutFault}) =>
        /\ (api.debug /\ OwnCritical # <<>>) =>
                /\ api.fault = InvalidCallFault
                /\ api.text = Join(api.msgs)
                /\ Range(OwnCritical) \subseteq Range(api.msgs)
        /\ ~api.debug => api.fault # InvalidCallFault

\* C25 as stated: in debug mode, when the engine emits at least one
\* critical-severity log message as a consequence of a call made through
\* call_api (synchronous or fire-and-forget), the call raises an invalid-call
\* fault carrying the captured messages joined together; in non-debug mode
\* no such fault is raised.
C25_CriticalMessagesRaise == CriticalRaises

\* The same of synchronous calls alone.
SyncCriticalRaises == api.sync => CriticalRaises

\* The call statement s read back: the function name and the argument
\* expressions in order, when s is a name followed by a parenthesised list
\* of expressions and nothing else.
ReadCall(s) ==
    LET f == ReadName(s, 1, "")
        a == IF Ch(s, f.next) = "(" THEN ReadItems(s, f.next + 1, ")", FALSE, <<>>)
             ELSE NotRead
    IN  IF f.v # "" /\ a.ok /\ a.next = Len(s) + 1
        THEN [ok |-> TRUE, fn |-> f.v, args |-> a.v.items]
        ELSE [ok |-> FALSE, fn |-> "", args |-> <<>>]

\* A Variable inside a list or a dict.
RECURSIVE HasVariable(_)
HasVariable(o) ==
    o.t = "var" \/ \E i \in DOMAIN o.items : HasVariable(o.items[i])

NestedVariable(o) == o.t # "var" /\ HasVariable(o)

IsDD == dnd.mime.type = QGRAPH_DD_MIME_TYPE

\* The version of the payload the data was made from: its own, or the one
\* create_qt_mime_data gives it.
PayloadVersion ==
    IF Has(dnd.payload, "version") THEN Get(dnd.payload, "version", PyNone).n
    ELSE QGRAPH_DD_MIME_VERSION

\* The entries of the payload the data was made from.
Entries(key) ==
    IF dnd.payload.t = "dict" THEN Get(dnd.payload, key, PyList(<<>>)).items ELSE <<>>

CallsOf(fn) == SelectSeq(dnd.calls, LAMBDA c : c.fn = fn)

IsPrefix(s, t) == Len(s) <= Len(t) /\ s = SubSeq(t, 1, Len(s))

\* The insert_vertex call of the vertex entry v: at x + (dx - width/2)*s and
\* y + (dy - height/2)*s, here times 200 with s = zoom/100.
VertexCall(v) ==
    [fn |-> "insertVertex",
     x |-> 200 * dnd.x + 2 * Get(v, "dx", PyNone).n * dnd.zoom
           - Get(v, "width", PyNone).n * dnd.zoom,
     y |-> 200 * dnd.y + 2 * Get(v, "dy", PyNone).n * dnd.zoom
           - Get(v, "height", PyNone).n * dnd.zoom,
     width |-> Get(v, "width", PyNone).n,
     height |-> Get(v, "height", PyNone).n,
     label |-> Get(v, "label", PyNone).s,
     style |-> IF Has(v, "style") THEN Get(v, "style", PyNone) ELSE PyNone,
     tags |-> IF Has(v, "tags") THEN Get(v, "tags", PyNone) ELSE PyDict(<<>>)]

VertexCalls == [i \in DOMAIN Entries("vertices") |-> VertexCall(Entries("vertices")[i])]

\* C27: a payload encoded with create_qt_mime_data and dropped at (x, y)
\* while the zoom scale is s makes, for every vertex entry in payload order,
\* one insert_vertex call at (x + (dx - width/2)*s, y + (dy - height/2)*s)
\* with the entry's width, height, label, style and tags, and the drop event
\* is accepted after them; a 64x64 vertex with dx=dy=0 dropped at (100,100)
\* with s=1 is inserted at (68,68).  (Of payloads of version 1 or 2; a call
\* that raises ends the drop.)
C27_VerticesInserted ==
    (IsDD /\ PayloadVersion \in {1, 2}) =>
        /\ (dnd.phase = "done" /\ dnd.fault = "none") =>
                (CallsOf("insertVertex") = VertexCalls /\ dnd.verdict = "accepted")
        /\ dnd.phase # "done" => dnd.verdict = "none"
        /\ IsPrefix(CallsOf("insertVertex"), VertexCalls)
        /\ \A i \in DOMAIN CallsOf("insertVertex") :
                (/\ Entries("vertices")[i] = Vertex(0, 0, 64, 64, "test 1", <<>>)
                 /\ dnd.x = 100 /\ dnd.y = 100 /\ dnd.zoom = 100) =>
                    (/\ CallsOf("insertVertex")[i].x = 200 * 68
                     /\ CallsOf("insertVertex")[i].y = 200 * 68)

\* C27 happens: two vertices were inserted at half scale and the drop was
\* accepted.
C27_Witness ==
    /\ dnd.phase = "done"
    /\ dnd.verdict = "accepted"
    /\ dnd.zoom = 50
    /\ Len(CallsOf("insertVertex")) = 2
    /\ CallsOf("insertVertex")[1] # CallsOf("insertVertex")[2]

\* C28: dropping a payload whose version is not 1 or 2 (for example -1)
\* raises a decode fault whose message names the unsupported version, makes
\* no insert call and no other API call, and does not accept the drop event.
C28_UnsupportedVersionRaises ==
    (IsDD /\ PayloadVersion \notin {1, 2}) =>
        /\ dnd.phase # "running"
        /\ dnd.calls = <<>>
        /\ handed.origin # "drop"
        /\ dnd.verdict = "none"
        /\ dnd.phase = "done" =>
                /\ dnd.fault = "ValueError"
                /\ PayloadVersion = -1 =>
                        dnd.text = "Unsupported version of QmxGraph MIME data: -1"

\* C28 happens: a payload of version -1 with a vertex was dropped on a loaded
\* graph.
C28_Witness ==
    /\ view_state = "GraphLoaded"
    /\ dnd.phase = "done"
    /\ dnd.fault = "ValueError"
    /\ PayloadVersion = -1
    /\ Entries("vertices") # <<>>

\* C29: drag-enter and drag-move events are accepted if and only if the
\* event carries data of the QmxGraph drag MIME type, whatever the version
\* of the payload; a drop event without that type is ignored and makes no
\* API call.
C29_OnlyDragTypeApproved ==
    /\ dnd.enter # "none" => (dnd.enter = "accepted" <=> IsDD)
    /\ dnd.move # "none" => (dnd.move = "accepted" <=> IsDD)
    /\ ~IsDD =>
            /\ dnd.phase # "running"
            /\ dnd.calls = <<>>
            /\ handed.origin # "drop"
            /\ dnd.fault = "none"
            /\ dnd.phase = "done" => dnd.verdict = "ignored"

\* C29 happens: the events of a drag of another type were all ignored.
C29_Witness ==
    /\ dnd.mime.type = "application/xml"
    /\ dnd.enter = "ignored"
    /\ dnd.move = "ignored"
    /\ dnd.verdict = "ignored"

\* The enter and move events of a payload of version -1 were accepted.
AnyVersionApproved ==
    /\ PayloadVersion = -1
    /\ dnd.enter = "accepted"
    /\ dnd.move = "accepted"

\* The insert_decoration call of the decoration entry v: at the drop point.
DecorationCall(v) ==
    [fn |-> "insertDecoration",
     x |-> 200 * dnd.x,
     y |-> 200 * dnd.y,
     width |-> Get(v, "width", PyNone).n,
     height |-> Get(v, "height", PyNone).n,
     label |-> Get(v, "label", PyNone).s,
     style |-> IF Has(v, "style") THEN Get(v, "style", PyNone) ELSE PyNone,
     tags |-> IF Has(v, "tags") THEN Get(v, "tags", PyNone) ELSE PyDict(<<>>)]

DecorationCalls ==
    [i \in DOMAIN Entries("decorations") |-> DecorationCall(Entries("decorations")[i])]

\* C30: decoration entries of a dropped payload are inserted only when the
\* payload version is 2, each by one insert_decoration call at the raw drop
\* point (no offset, no zoom scaling); the decoration entries of a version 1
\* payload are ignored.
C30_DecorationsOfVersionTwo ==
    IsDD =>
        /\ PayloadVersion # 2 => CallsOf("insertDecoration") = <<>>
        /\ IsPrefix(CallsOf("insertDecoration"), DecorationCalls)
        /\ (PayloadVersion = 2 /\ dnd.phase = "done" /\ dnd.fault = "none") =>
                CallsOf("insertDecoration") = DecorationCalls
        /\ (PayloadVersion = 1 /\ dnd.phase = "done" /\ dnd.fault = "none") =>
                dnd.verdict = "accepted"

\* C30 happens: a decoration was inserted at the drop point at half scale,
\* after a vertex.
C30_Witness ==
    /\ dnd.phase = "done"
    /\ dnd.verdict = "accepted"
    /\ dnd.zoom = 50
    /\ Len(CallsOf("insertVertex")) = 1
    /\ Len(CallsOf("insertDecoration")) = 1

\* The decorations of a version 1 payload were left out of an accepted drop.
VersionOneDecorationsIgnored ==
    /\ PayloadVersion = 1
    /\ Entries("decorations") # <<>>
    /\ dnd.verdict = "accepted"
    /\ CallsOf("insertDecoration") = <<>>

\* Every notification is in exactly one place: in the queue of its bridge,
\* in the event queue, in a running flush or dispatch, or with the listeners.
NotifiedOnce ==
    \A n \in DOMAIN arrived :
        InQueue(delayed[arrived[n].bridge], n) + Occ(posted, n)
            + InFlush(n) + Occ(emitted, n) = 1

\* When no host code is running no bridge is delaying and no queue holds
\* anything.
IdleNotDelaying ==
    stack = <<>> => \A b \in Bridges : counter[b] = 0 /\ delayed[b] = <<>>

\* A call made by a listener that is being notified does not raise the state
\* fault: a synchronous one hands its script over and waits in an event loop
\* of its own, and the call that leaves that wait returns the result.
ListenerCallStep ==
    /\ (ncalls' = ncalls + 1 /\ Top.kind = "emit") =>
          /\ handed'.origin = "host"
          /\ raised' \in {"pending", "none"}
          /\ raised' = "pending" => (Top'.kind = "call" /\ ~Top'.called /\ PumpPoint')
          /\ raised' = "none" => emitted' = emitted
    /\ (Top.kind = "call" /\ Len(stack) > 1 /\ stack[Len(stack) - 1].kind = "emit"
          /\ (Len(stack') < Len(stack) \/ stack'[Len(stack)].kind # "call")) =>
          /\ Top.called
          /\ raised' = "value"

\* Nothing is left to do: no host code runs, no bridge is delaying, and every
\* notification that arrived has reached the listeners.
Settled ==
    /\ Quiet
    /\ posted = <<>>
    /\ \A n \in DOMAIN arrived : n \in Range(emitted)

\* C31: a listener connected to a bridge signal can make a synchronous API
\* call while it is being notified, also when the flush at the end of another
\* API call notifies it: the nested call does not raise the state fault and
\* returns its result, every call returns (no deadlock), every notification
\* is emitted exactly once, and when the outermost call has returned the
\* delaying counter of every bridge is zero again.
C31_ListenersCanCall ==
    /\ []NotifiedOnce
    /\ []IdleNotDelaying
    /\ [][ListenerCallStep]_vars
    /\ []<>Settled

\* C31 happens: a listener notified by the flush at the end of an API call
\* has made a synchronous call of its own, and that call has returned.
C31_Witness ==
    /\ Len(stack) = 2
    /\ stack[1].kind = "exit"
    /\ stack[2].kind = "emit" /\ stack[2].cur # 0
    /\ Queued(stack[2].cur)
    /\ ncalls = 2
    /\ raised = "value"

\* Number of delaying scopes open on the bridge b: with statements whose body
\* is running (a scope of host code, a call_api that waits) and with
\* statements that are being left and have not yet run the finally clause of b.
OpenScopes(b) ==
    Cardinality({i \in DOMAIN stack :
                    /\ stack[i].kind \in {"scope", "call", "exit"}
                    /\ b \in Range(stack[i].bs)})

ScopesCounted == \A b \in Bridges : counter[b] >= 0 /\ counter[b] = OpenScopes(b)

\* A call that raises the state fault enters and leaves its scopes in one
\* step; the step in which a waiting call times out leaves the scopes of the
\* call up to the first flush, and changes no counter otherwise.
FaultStep ==
    /\ (ncalls' = ncalls + 1 /\ raised' = "state_fault") =>
            (counter' = counter /\ delayed' = delayed /\ stack' = stack)
    /\ (Top.kind = "call" /\ raised' = "timeout_fault" /\ raised # "timeout_fault") =>
            /\ \A b \in Bridges : counter'[b] \in {counter[b], counter[b] - 1}
            /\ \A b \in Bridges : counter'[b] = OpenScopes(b)'
            /\ Len(stack') < Len(stack) => counter' = [b \in Bridges |-> counter[b] - 1]

\* C32: the delaying counter of each bridge is never negative and always
\* equals the number of delaying scopes open on it; leaving a scope restores
\* the value the counter had before the scope was entered, also when its body
\* raises, so a call_api that fails with the state fault or a timeout leaves
\* the counters of all four bridges as they were before the call.
C32_CounterCountsScopes == []ScopesCounted /\ [][FaultStep]_vars

\* C32 happens: a call has timed out with a notification in the queue, the
\* flush of its scope exit has notified the listeners, and nothing is running.
C32_Witness ==
    /\ stack = <<>>
    /\ raised = "timeout_fault"
    /\ \A b \in Bridges : counter[b] = 0
    /\ \E n \in DOMAIN arrived : Queued(n) /\ n \in Range(emitted)

\* A listener notified by the flush of a scope exit has made a call that
\* raised the state fault while the error bridge was still delaying.
FaultInsideFlush ==
    /\ raised = "state_fault"
    /\ Top.kind = "emit"
    /\ counter["error"] = 1

\* The listeners of a notification start to be called only while the bridge
\* of the notification is not delaying.
NotifyStep ==
    Len(emitted') = Len(emitted) + 1 =>
        counter[arrived[Last(emitted')].bridge] = 0

\* C33 as stated: no listener of a bridge starts to be notified while the
\* delaying counter of that bridge is greater than zero, also when the
\* notification was posted to the event queue before the scope was entered
\* and the wait of a synchronous call runs the event loop inside the scope.
C33_NoListenerWhileDelaying == [][NotifyStep]_vars

\* A notification queued by a delaying bridge is not with the listeners
\* while the scope it arrived in is open (the part of C33 the code keeps).
QueuedHeldBack ==
    \A n \in DOMAIN arrived :
        InQueue(delayed[arrived[n].bridge], n) > 0 =>
            (counter[arrived[n].bridge] > 0 /\ n \notin Range(emitted))

\* C34 as stated: notifications of one event name on one bridge reach the
\* listeners in arrival order also across a switch into delaying mode: one
\* that arrived before a delaying scope was entered is delivered before every
\* one that arrived during that scope.
C34_OrderAcrossSwitch ==
    \A m, n \in DOMAIN arrived :
        (/\ m < n
         /\ Direct(m) /\ Queued(n)
         /\ arrived[m].bridge = arrived[n].bridge
         /\ arrived[m].signal = arrived[n].signal
         /\ n \in Range(emitted)) =>
            /\ m \in Range(emitted)
            /\ EmittedAt(m) < EmittedAt(n)

\* The step delivers the completion of a page load of the given kind.
CompletionOf(kind) == IsCompletion /\ Head(loads) = kind

\* A load completion moves the view to GraphLoaded, unblocks the channel or
\* calls the functions that wait for the graph only when it is the completion
\* of a graph load, and moves it to Blank only when it is the completion of a
\* blank load.
OwnCompletionStep ==
    IsCompletion =>
        /\ (view_state' = "GraphLoaded" /\ view_state # "GraphLoaded") => CompletionOf("graph")
        /\ (block_updates /\ ~block_updates') => CompletionOf("graph")
        /\ once' # once => CompletionOf("graph")
        /\ (view_state' = "Blank" /\ view_state # "Blank") => CompletionOf("blank")

\* C35 as stated: when a load request is made while a blank load is still in
\* flight (LoadingBlank), the view enters GraphLoaded, unblocks the channel
\* and fires the finalize hook only when the completion of the graph load
\* itself arrives: the completion of the superseded blank load never moves
\* the view to GraphLoaded, and the completion of a superseded graph load
\* never moves it to Blank.
C35_OnlyOwnCompletion == [][OwnCompletionStep]_vars

\* With one page load in flight at most, a completion settles the request
\* it belongs to.
OwnCompletionWhenAlone == [][Len(loads) = 1 => OwnCompletionStep]_vars

\* C36 as stated: ViewState becomes LoadingError only from LoadingGraph or
\* LoadingBlank: a failed load completion delivered in GraphLoaded, Blank or
\* Closing leaves ViewState unchanged.
C36_ErrorOnlyFromLoading ==
    [][(view_state' = "LoadingError" /\ view_state # "LoadingError") =>
            view_state \in {"LoadingGraph", "LoadingBlank"}]_vars

\* A successful load completion delivered in GraphLoaded, Blank, Closing or
\* LoadingError leaves ViewState unchanged.
SuccessIgnoredUnlessLoading ==
    [][(IsCompletion /\ finished' = "ok"
            /\ view_state \notin {"LoadingGraph", "LoadingBlank"}) =>
                view_state' = view_state]_vars

\* C37: every synchronous eval_js call returns only the result the engine
\* produced for its own script: neither the result of a nested synchronous
\* call made while the outer call waits, nor the late result of an earlier
\* call that timed out, is ever returned by or captured into another call.
C37_OwnResultOnly ==
    \A k \in DOMAIN evals :
        /\ evals[k].cb.args # <<>> =>
                (evals[k].answered /\ evals[k].cb.args = << <<ScriptResult(k)>> >>)
        /\ evals[k].cb.phase = "returned" =>
                (evals[k].cb.fault = "none" /\ evals[k].cb.result = <<ScriptResult(k)>>)
        /\ evals[k].cb.phase = "timeout" =>
                (evals[k].cb.fault = TimeoutFault /\ evals[k].cb.result = <<>>)

\* C37 happens: the first call has timed out and the engine has answered it
\* too late, while the third call, made inside the wait of the second, was
\* waiting; the third and then the second have returned.
C37_Witness ==
    /\ Len(evals) = 3
    /\ evals[1].cb.phase = "timeout" /\ evals[1].cb.args # <<>>
    /\ evals[2].cb.phase = "returned"
    /\ evals[3].cb.phase = "returned" /\ evals[3].inside = 2

\* The exceptions _on_drop raises for a payload it cannot use.
DecodeFaults == {"ValueError", "KeyError"}

\* C38 as stated: a drop that ends in a decode fault (unsupported version,
\* or a vertex or decoration entry without width, height or label) makes no
\* insert_vertex or insert_decoration call at all and does not accept the
\* drop event: the entries before the faulty one are not inserted.
C38_DecodeFaultInsertsNothing ==
    (dnd.phase = "done" /\ dnd.fault \in DecodeFaults) =>
        (dnd.calls = <<>> /\ dnd.verdict = "none")

\* A drop that ends in a decode fault does not accept the drop event, makes
\* no call for the faulty entry or an entry after it, and makes no call at
\* all when the fault is the unsupported version.
DecodeFaultNotAccepted ==
    (dnd.phase = "done" /\ dnd.fault \in DecodeFaults) =>
        /\ dnd.verdict = "none"
        /\ dnd.fault = "ValueError" => dnd.calls = <<>>
        /\ dnd.fault = "KeyError" =>
               Len(dnd.calls) < Len(Entries("vertices")) + Len(Entries("decorations"))

\* How a wait_until loop stands: it has returned only from a poll that found
\* the predicate true, it has raised only from a poll that found it false
\* with the deadline passed, it has looked at the deadline once for every
\* poll that found the predicate false, and never before the poll, and it
\* has run the event loop between any two polls.
PollOutcome ==
    /\ poll.phase = "returned" => poll.found /\ poll.checks = poll.polls - 1
    /\ poll.phase = "raised" =>
           ~poll.found /\ timed_out(poll) /\ poll.checks = poll.polls
    /\ poll.phase \in {"predicate", "qWait"} => poll.checks = poll.polls
    /\ poll.phase = "timed_out" => ~poll.found /\ poll.checks = poll.polls - 1
    /\ poll.phase \in {"timed_out", "qWait", "returned", "raised"} =>
           poll.waits = poll.polls - 1
    /\ poll.phase = "predicate" => poll.waits = poll.polls

\* A poll that finds the predicate true returns, whatever the deadline; the
\* loop raises only when it looks at the deadline after a false poll.
PollStep ==
    /\ (poll.phase = "predicate" /\ poll.holds /\ poll' # poll
            /\ poll'.polls > poll.polls) => poll'.phase = "returned"
    /\ (poll'.phase = "raised" /\ poll.phase # "raised") =>
           poll.phase = "timed_out" /\ ~poll.found /\ timed_out(poll)
    /\ (poll'.phase = "returned" /\ poll.phase # "returned") =>
           poll.phase = "predicate" /\ poll.holds

\* C39: wait_until evaluates the predicate before it looks at the deadline
\* on every poll: it returns whenever a poll finds the predicate true, even
\* with the deadline passed or a timeout of 0; it raises TimeoutError only
\* after a poll that found the predicate false with the deadline passed; it
\* runs the event loop between polls; and it always ends, by returning or
\* by raising.
C39_PredicateBeforeDeadline ==
    /\ []PollOutcome
    /\ [][PollStep]_vars
    /\ (poll.phase \in Running) ~> (poll.phase \in {"returned", "raised"})

\* The loop has returned from its second poll or a later one with the
\* deadline passed.
C39_Witness ==
    poll.phase = "returned" /\ timed_out(poll) /\ poll.polls >= 2

\* The loop has returned with a timeout of 0 and time elapsed.
ReturnedWithTimeoutZero ==
    poll.phase = "returned" /\ poll.timeout = 0 /\ poll.elapsed > 0

\* The loop has raised TimeoutError after it ran the event loop.
RaisedAfterWaiting == poll.phase = "raised" /\ poll.waits >= 1

====
